---- MODULE Spec2Model ----
(***************************************************************************)
(* Model of probe-lab/go-commons: the HTTP middleware of package http      *)
(* (MiddlewareChain, MiddlewareGZip and the ResponseWriter wrapper) and    *)
(* the lifecycle of the gRPC server wrapper of package grpc.               *)
(*                                                                         *)
(* The specifications share the module, each over its own variables:       *)
(*   SpecChain  MiddlewareChain building and serving a nested handler      *)
(*   SpecGZip   concurrent requests through one MiddlewareGZip handler     *)
(*   SpecGrpc   ListenAndServe / Shutdown / BindCtx / SetServingStatus     *)
(*   SpecGrpcFair  SpecGrpc with the fairness of its goroutines            *)
(***************************************************************************)
EXTENDS Integers, Sequences, FiniteSets, TLC

VARIABLES
    \* ---- MiddlewareChain
    chMws,      \* the variadic argument mws
    chI,        \* the loop index i of MiddlewareChain (0-based, as in the code)
    chNext,     \* the loop variable next: the handler built so far, outermost first
    chPc,       \* "build" | "in" | "out" | "done" ("idle": no chain is built)
    chDepth,    \* how many middlewares of the built handler are entered and not left
    chTrace,    \* history: the events the request produced, in order
    \* ---- MiddlewareGZip
    gzPool,     \* sync.Pool: the compressors available in the pool
    gzAlloc,    \* how many compressors New has created
    gz,         \* gz[g]: the state of gzip.Writer g
    req,        \* req[r]: the request headers Accept-Encoding, Connection, ETag
    pc,         \* pc[r]: where request r is inside MiddlewareGZip
    gzw,        \* gzw[r]: the compressor request r took (0: none)
    rw,         \* rw[r]: the underlying response writer: status, header, body
    wrapped,    \* wrapped[r]: the ResponseWriter wrapper: written
    hist,       \* hist[r]: history of what the handler did and saw
    holder,     \* holder[g]: history: who holds g ("pool", "none" or a request)
    lastUse,    \* history: the last use of a compressor
    \* ---- grpc.Server
    cfgListener, \* cfg.Listener # nil
    health,     \* health.Server: status of service "" and the shutdown flag
    srv,        \* grpc.Server: listeners, quit and done events, connections
    lasPc,      \* where ListenAndServe is
    lasErr,     \* what ListenAndServe returned
    sdPc,       \* sdPc[c]: where caller c is inside Shutdown
    ctx,        \* the contexts of BindCtx: parent and derived
    bindPc,     \* the waiter goroutine and the returned function
    ghist,      \* history of the gRPC server's lifecycle
    \* ---- the middleware pipeline Recover, Logging, Metric, Authentication
    pcfg,       \* which middlewares the chain is built from
    keys,       \* MiddlewareAuthentication(keys, users)
    users,
    lookup,     \* the lookup table built at construction
    gauge,      \* the in_flight Int64Gauge: the last value recorded (0: none)
    ppc,        \* ppc[r]: "new" | "down" | "handler" | "up" | "panic" | "done" | "crashed"
    pstack,     \* pstack[r]: the middlewares entered and not left, outermost first
    pin,        \* pin[r]: the request: method, path, X-API-Key
    punder,     \* punder[r]: the writer the server hands to the chain
    pwr,        \* pwr[r]: the *ResponseWriter instances created for the request
    pcur,       \* pcur[r]: the writer handed to the next layer (0: punder, k: pwr[k])
    pops,       \* pops[r]: history: the calls the handler made on its writer
    pout,       \* pout[r]: history: log entries, counter increments, handler calls
    \* ---- severity of the access log entry
    lvStatus,   \* a recorded status
    lvLevel,    \* the level chosen for it ("none": not chosen yet)
    \* ---- ServerConfig.Validate and NewServer
    vCfg,       \* the *ServerConfig
    vErr,       \* what Validate returned ("unset": not called)
    vSrv,       \* what NewServer returned
    \* ---- the recovery interceptor of the gRPC server
    rcNow,      \* the clock, in ticks
    rcLim,      \* the rate.Limiter of the panic log
    rcPc,       \* rcPc[c]: where the recovery handler of the call c is
    rcHist,     \* history: panics, counter, log lines, errors returned
    \* ---- Encode, Decode and DecodeAndClose
    rsIn,       \* the status and the value handed to Encode
    rsPc,       \* "encode" | "decode" | "close" | "return" | "done"
    rsRw,       \* the response writer
    rsRd,       \* the io.ReadCloser handed to DecodeAndClose
    rsRet,      \* what DecodeAndClose returned
    \* ---- the root command
    rtCfg,      \* the RootCommandConfig
    rtEnv,      \* the hooks of the command and what the environment makes fail
    rtPc,       \* where the run of the command is
    rtHist,     \* history: warnings, hooks run, results
    \* ---- debugPrintEnvVars
    evEnviron,  \* os.Environ()
    evI,        \* the loop index
    evLog,      \* the lines logged
    \* ---- Mapping
    mpIn,       \* the arguments of NewMapping
    mpPc,       \* "new" | "built" | "failed"
    mpMap,      \* the Mapping
    mpOut       \* the last Get and the calls of the ForEach callback

chainVars == <<chMws, chI, chNext, chPc, chDepth, chTrace>>
gzipVars == <<gzPool, gzAlloc, gz, req, pc, gzw, rw, wrapped, hist, holder, lastUse>>
grpcVars == <<cfgListener, health, srv, lasPc, lasErr, sdPc, ctx, bindPc, ghist>>
pipeVars == <<pcfg, keys, users, lookup, gauge, ppc, pstack, pin, punder, pwr, pcur,
              pops, pout>>
levelVars == <<lvStatus, lvLevel>>
valVars == <<vCfg, vErr, vSrv>>
recVars == <<rcNow, rcLim, rcPc, rcHist>>
respVars == <<rsIn, rsPc, rsRw, rsRd, rsRet>>
rootVars == <<rtCfg, rtEnv, rtPc, rtHist>>
envVars == <<evEnviron, evI, evLog>>
mapVars == <<mpIn, mpPc, mpMap, mpOut>>
moreVars == <<valVars, recVars, respVars, rootVars, envVars, mapVars>>
httpVars == <<pipeVars, levelVars, moreVars>>
vars == <<chainVars, gzipVars, grpcVars, httpVars>>

(***************************************************************************)
(* Bounds                                                                  *)
(***************************************************************************)
MaxChain == 3
MaxWrites == 2
MaxGz == 2
MaxConns == 1

(***************************************************************************)
(* Strings are sequences of characters, so that strings.Contains,          *)
(* strings.HasPrefix and strings.ToLower are computed, not assumed.        *)
(***************************************************************************)
Upper == <<"A","B","C","D","E","F","G","H","I","J","K","L","M",
           "N","O","P","Q","R","S","T","U","V","W","X","Y","Z">>
Lower == <<"a","b","c","d","e","f","g","h","i","j","k","l","m",
           "n","o","p","q","r","s","t","u","v","w","x","y","z">>

LowerChar(c) ==
    IF \E i \in 1..Len(Upper) : Upper[i] = c
    THEN Lower[CHOOSE i \in 1..Len(Upper) : Upper[i] = c]
    ELSE c

ToLower(s) == [i \in 1..Len(s) |-> LowerChar(s[i])]

Contains(s, sub) ==
    \E i \in 1..(Len(s) - Len(sub) + 1) : SubSeq(s, i, i + Len(sub) - 1) = sub

HasPrefix(s, p) == Len(s) >= Len(p) /\ SubSeq(s, 1, Len(p)) = p

(***************************************************************************)
(* MiddlewareChain                                                         *)
(*                                                                         *)
(* A handler is the sequence of the middlewares nested around the final    *)
(* handler h, outermost first; <<>> is h itself.                           *)
(***************************************************************************)
Middlewares == {"A", "B", "C"}

SeqsUpTo(S, n) == UNION {[1..k -> S] : k \in 0..n}

\* mws[i](next): middleware m applied to next is a handler that enters m,
\* calls next and then leaves m.
Wrap(m, next) == <<m>> \o next

\* a decorator applied the wrong way round: the new middleware innermost
ChainStepInnermost(mws, i, next) == next \o <<mws[i + 1]>>

\* one iteration of the loop body: next = mws[i](next), i counted from 0
ChainStep(mws, i, next) == Wrap(mws[i + 1], next)

ChainInit ==
    /\ chMws \in SeqsUpTo(Middlewares, MaxChain)
    /\ chI = Len(chMws) - 1
    /\ chNext = <<>>
    /\ chPc = "build"
    /\ chDepth = 0
    /\ chTrace = <<>>

ChainIdle ==
    /\ chMws = <<>>
    /\ chI = -1
    /\ chNext = <<>>
    /\ chPc = "idle"
    /\ chDepth = 0
    /\ chTrace = <<>>

\* for i := len(mws) - 1; i >= 0; i-- { next = mws[i](next) }
ChainLoop ==
    /\ chPc = "build"
    /\ chI >= 0
    /\ chNext' = ChainStep(chMws, chI, chNext)
    /\ chI' = chI - 1
    /\ UNCHANGED <<chMws, chPc, chDepth, chTrace>>
    /\ UNCHANGED <<gzipVars, grpcVars, httpVars>>

\* return next; the returned handler then receives a request
ChainReturn ==
    /\ chPc = "build"
    /\ chI < 0
    /\ chPc' = "in"
    /\ UNCHANGED <<chMws, chI, chNext, chDepth, chTrace>>
    /\ UNCHANGED <<gzipVars, grpcVars, httpVars>>

\* the request enters the next middleware of the nest
ChainEnter ==
    /\ chPc = "in"
    /\ chDepth < Len(chNext)
    /\ chTrace' = Append(chTrace, <<"enter", chNext[chDepth + 1]>>)
    /\ chDepth' = chDepth + 1
    /\ UNCHANGED <<chMws, chI, chNext, chPc>>
    /\ UNCHANGED <<gzipVars, grpcVars, httpVars>>

\* the innermost next.ServeHTTP is the final handler h
ChainHandler ==
    /\ chPc = "in"
    /\ chDepth = Len(chNext)
    /\ chTrace' = Append(chTrace, <<"h", "h">>)
    /\ chPc' = "out"
    /\ UNCHANGED <<chMws, chI, chNext, chDepth>>
    /\ UNCHANGED <<gzipVars, grpcVars, httpVars>>

\* next.ServeHTTP returns into the middleware that called it
ChainExit ==
    /\ chPc = "out"
    /\ chDepth > 0
    /\ chTrace' = Append(chTrace, <<"exit", chNext[chDepth]>>)
    /\ chDepth' = chDepth - 1
    /\ UNCHANGED <<chMws, chI, chNext, chPc>>
    /\ UNCHANGED <<gzipVars, grpcVars, httpVars>>

ChainDone ==
    /\ chPc = "out"
    /\ chDepth = 0
    /\ chPc' = "done"
    /\ UNCHANGED <<chMws, chI, chNext, chDepth, chTrace>>
    /\ UNCHANGED <<gzipVars, grpcVars, httpVars>>

ChainNext ==
    \/ ChainLoop
    \/ ChainReturn
    \/ ChainEnter
    \/ ChainHandler
    \/ ChainExit
    \/ ChainDone


(***************************************************************************)
(* compress/gzip as MiddlewareGZip uses it                                 *)
(*                                                                         *)
(* What a gzip.Writer sends to its target is a sequence of tokens: the     *)
(* header, blocks of compressed data and the trailer, which carries the    *)
(* checksum and the size of the uncompressed data.  A byte written to a    *)
(* response writer directly is a "raw" token.                              *)
(***************************************************************************)
Requests == {"r1", "r2"}
GzIds == 1..MaxGz
BlockSize == 2

Token(k, d, c, n) == [k |-> k, d |-> d, c |-> c, n |-> n]
HeaderTok == Token("H", <<>>, 0, 0)
BlockTok(d) == Token("B", d, 0, 0)
TrailerTok(c, n) == Token("T", <<>>, c, n)
RawTok(b) == Token("raw", <<b>>, 0, 0)

Raw(p) == [i \in 1..Len(p) |-> RawTok(p[i])]

\* the checksum of the trailer: it depends on the bytes and on their order
RECURSIVE Crc(_, _)
Crc(c, p) == IF p = <<>> THEN c ELSE Crc((c * 3 + Head(p)) % 7, Tail(p))

RECURSIVE Payload(_)
Payload(toks) == IF toks = <<>> THEN <<>> ELSE Head(toks).d \o Payload(Tail(toks))

\* gunzip: the stream is a header, blocks and a trailer that matches the data
Decompress(stream) ==
    LET n == Len(stream)
        wellFormed ==
            /\ n >= 2
            /\ stream[1].k = "H"
            /\ stream[n].k = "T"
            /\ \A i \in 2..(n - 1) : stream[i].k = "B"
        data == IF wellFormed THEN Payload(SubSeq(stream, 2, n - 1)) ELSE <<>>
    IN  IF /\ wellFormed
           /\ stream[n].n = Len(data)
           /\ stream[n].c = Crc(0, data)
        THEN [ok |-> TRUE, data |-> data]
        ELSE [ok |-> FALSE, data |-> <<>>]

\* gzip.NewWriterLevel(io.Discard, 4) and gzip.Writer.Reset(w)
GzWriterInit(w) ==
    [w |-> w, wroteHeader |-> FALSE, closed |-> FALSE, err |-> FALSE,
     size |-> 0, digest |-> 0, pend |-> <<>>]

\* gzip.Writer.Write(p): the header goes out with the first Write, the data
\* is buffered by the compressor and goes out in blocks; the result is the
\* new writer, the tokens sent to z.w and the count returned.
GzWriterWrite(z, p) ==
    IF z.err THEN [z |-> z, out |-> <<>>, n |-> 0]
    ELSE LET hdr == IF z.wroteHeader THEN <<>> ELSE <<HeaderTok>>
             z1 == [z EXCEPT !.wroteHeader = TRUE,
                             !.size = @ + Len(p),
                             !.digest = Crc(@, p)]
             buf == z.pend \o p
         IN  IF z.closed
             THEN \* the compressor is closed: its Write fails
                  [z |-> [z1 EXCEPT !.err = TRUE], out |-> hdr, n |-> 0]
             ELSE IF Len(buf) >= BlockSize
             THEN [z |-> [z1 EXCEPT !.pend = <<>>],
                   out |-> hdr \o <<BlockTok(buf)>>, n |-> Len(p)]
             ELSE [z |-> [z1 EXCEPT !.pend = buf], out |-> hdr, n |-> Len(p)]

\* gzip.Writer.Close(): writes the header if no Write did, flushes the
\* compressor and writes the trailer
GzWriterClose(z) ==
    IF z.err \/ z.closed THEN [z |-> z, out |-> <<>>]
    ELSE LET hdr == IF z.wroteHeader THEN <<>> ELSE <<HeaderTok>>
             blk == IF z.pend = <<>> THEN <<>> ELSE <<BlockTok(z.pend)>>
         IN  [z |-> [z EXCEPT !.closed = TRUE, !.wroteHeader = TRUE, !.pend = <<>>],
              out |-> hdr \o blk \o <<TrailerTok(z.digest, z.size)>>]


(***************************************************************************)
(* MiddlewareGZip                                                          *)
(***************************************************************************)
sGzip == <<"g","z","i","p">>
sUpgrade == <<"u","p","g","r","a","d","e">>
sWeak == <<"W","/">>

AcceptEncodings == {<<>>, <<"b","r",",">> \o sGzip, <<"G","Z","I","P">>}
Connections == {<<>>, <<"U","p","g","r","a","d","e">>}
ETags == {<<>>, <<"x">>, sWeak \o <<"x">>}

Digits == <<"0","1","2","3","4","5","6","7","8","9">>

\* strconv.Itoa
RECURSIVE Itoa(_)
Itoa(n) ==
    IF n < 0 THEN <<"-">> \o Itoa(-n)
    ELSE IF n < 10 THEN <<Digits[n + 1]>>
    ELSE Itoa(n \div 10) \o <<Digits[(n % 10) + 1]>>

\* a WrapResponseWriter that wraps a *ResponseWriter once more
WrapResponseWriterAgain(kind) ==
    CASE kind = "wrapped" -> [ok |-> TRUE, fresh |-> TRUE]
      [] kind = "flusher" -> [ok |-> TRUE, fresh |-> TRUE]
      [] OTHER -> [ok |-> FALSE, fresh |-> FALSE]

\* WrapResponseWriter(rw): a *ResponseWriter is returned as it is, a writer
\* without Flush is refused, any other writer gets a new wrapper
WrapResponseWriter(kind) ==
    CASE kind = "wrapped" -> [ok |-> TRUE, fresh |-> FALSE]
      [] kind = "flusher" -> [ok |-> TRUE, fresh |-> TRUE]
      [] OTHER -> [ok |-> FALSE, fresh |-> FALSE]

\* gzipResponseWriter has a Flush method and is not a *ResponseWriter
GzrwKind == "flusher"

\* strings.Contains(r.Header.Get("Accept-Encoding"), "gzip")
acceptsGzip(ae) == Contains(ae, sGzip)

\* an upgrade check that forgets strings.ToLower
isUpgradeCaseSensitive(conn) == Contains(conn, sUpgrade)

\* strings.Contains(strings.ToLower(r.Header.Get("Connection")), "upgrade")
isUpgrade(conn) == Contains(ToLower(conn), sUpgrade)

NoHeader == [ce |-> "", vary |-> <<>>, etag |-> <<>>, cl |-> <<>>]

GzipInit ==
    /\ gzPool = {}
    /\ gzAlloc = 0
    /\ gz = [g \in GzIds |-> GzWriterInit("discard")]
    /\ req = [r \in Requests |-> [ae |-> <<>>, conn |-> <<>>, etag |-> <<>>]]
    /\ pc = [r \in Requests |-> "new"]
    /\ gzw = [r \in Requests |-> 0]
    /\ rw = [r \in Requests |-> [status |-> 0, hdr |-> NoHeader, body |-> <<>>]]
    /\ wrapped = [r \in Requests |-> [status |-> 200, written |-> 0]]
    /\ hist = [r \in Requests |->
                [body |-> <<>>, writes |-> 0, nextCalls |-> 0,
                 sawOriginal |-> FALSE, panicked |-> FALSE, took |-> FALSE,
                 puts |-> 0]]
    /\ holder = [g \in GzIds |-> "none"]
    /\ lastUse = [by |-> "none", g |-> 0, op |-> "none", holder |-> "none"]

\* the tokens a gzip.Writer sends reach the body of its target, or nothing
\* when the target is io.Discard
Deliver(rws, target, toks) ==
    IF target = "discard" THEN rws
    ELSE [rws EXCEPT ![target].body = @ \o toks]

Use(r, g, op) == [by |-> r, g |-> g, op |-> op, holder |-> holder[g]]

\* a request arrives: the two checks that bypass compression
GzStart(r) ==
    /\ pc[r] = "new"
    /\ \E ae \in AcceptEncodings, conn \in Connections :
        /\ req' = [req EXCEPT ![r].ae = ae, ![r].conn = conn]
        /\ IF ~acceptsGzip(ae) \/ isUpgrade(conn)
           THEN /\ pc' = [pc EXCEPT ![r] = "bypass"]
                /\ hist' = [hist EXCEPT ![r].nextCalls = @ + 1,
                                        ![r].sawOriginal = TRUE]
           ELSE /\ pc' = [pc EXCEPT ![r] = "get"]
                /\ hist' = hist
    /\ UNCHANGED <<gzPool, gzAlloc, gz, gzw, rw, wrapped, holder, lastUse>>
    /\ UNCHANGED <<chainVars, grpcVars, httpVars>>

\* gzw := gzPool.Get().(*gzip.Writer): a pooled compressor, or a new one
GzGet(r) ==
    /\ pc[r] = "get"
    /\ \E g \in GzIds :
        /\ \/ /\ g \in gzPool
              /\ gzPool' = gzPool \ {g}
              /\ gzAlloc' = gzAlloc
           \/ /\ g = gzAlloc + 1
              /\ gzAlloc' = g
              /\ gzPool' = gzPool
        /\ gzw' = [gzw EXCEPT ![r] = g]
        /\ holder' = [holder EXCEPT ![g] = r]
    /\ hist' = [hist EXCEPT ![r].took = TRUE]
    /\ pc' = [pc EXCEPT ![r] = "got"]
    /\ UNCHANGED <<gz, req, rw, wrapped, lastUse>>
    /\ UNCHANGED <<chainVars, grpcVars, httpVars>>

\* gzw.Reset(rw), the two wrappers, the gzip headers and the ETag, which
\* is read from the request here
GzReset(r) ==
    /\ pc[r] = "got"
    /\ gz' = [gz EXCEPT ![gzw[r]] = GzWriterInit(r)]
    /\ lastUse' = Use(r, gzw[r], "Reset")
    /\ IF WrapResponseWriter(GzrwKind).ok
       THEN \E etag \in ETags :
            /\ req' = [req EXCEPT ![r].etag = etag]
            /\ wrapped' = [wrapped EXCEPT ![r] = [status |-> 200, written |-> 0]]
            /\ rw' = [rw EXCEPT
                 ![r].hdr.ce = "gzip",
                 ![r].hdr.vary = Append(@, "Accept-Encoding"),
                 ![r].hdr.etag =
                     IF etag # <<>> /\ ~HasPrefix(etag, sWeak)
                     THEN sWeak \o etag ELSE @]
            /\ hist' = [hist EXCEPT ![r].nextCalls = @ + 1]
            /\ pc' = [pc EXCEPT ![r] = "serve"]
       ELSE \* http.Error(rw, ..., 500); return
            /\ rw' = [rw EXCEPT ![r].status = 500]
            /\ pc' = [pc EXCEPT ![r] = "defer2"]
            /\ UNCHANGED <<req, wrapped, hist>>
    /\ UNCHANGED <<gzPool, gzAlloc, gzw, holder>>
    /\ UNCHANGED <<chainVars, grpcVars, httpVars>>

\* what the handler's next Write call may carry
Chunks(k) == {<<>>, <<k>>}

\* the handler writes to the original writer (compression bypassed)
HWriteDirect(r) ==
    /\ pc[r] = "bypass"
    /\ hist[r].writes < MaxWrites
    /\ \E p \in Chunks(hist[r].writes + 1) :
        /\ rw' = [rw EXCEPT ![r].body = @ \o Raw(p)]
        /\ hist' = [hist EXCEPT ![r].body = @ \o p, ![r].writes = @ + 1]
    /\ UNCHANGED <<gzPool, gzAlloc, gz, req, pc, gzw, wrapped, holder, lastUse>>
    /\ UNCHANGED <<chainVars, grpcVars, httpVars>>

\* ResponseWriter.Write -> gzipResponseWriter.Write -> gzw.Write
HWriteGz(r) ==
    /\ pc[r] = "serve"
    /\ hist[r].writes < MaxWrites
    /\ \E p \in Chunks(hist[r].writes + 1) :
        LET res == GzWriterWrite(gz[gzw[r]], p) IN
        /\ gz' = [gz EXCEPT ![gzw[r]] = res.z]
        /\ rw' = Deliver(rw, gz[gzw[r]].w, res.out)
        /\ wrapped' = [wrapped EXCEPT ![r].written = @ + res.n]
        /\ hist' = [hist EXCEPT ![r].body = @ \o p, ![r].writes = @ + 1]
    /\ lastUse' = Use(r, gzw[r], "Write")
    /\ UNCHANGED <<gzPool, gzAlloc, req, pc, gzw, holder>>
    /\ UNCHANGED <<chainVars, grpcVars, httpVars>>

\* the handler returns or panics; the deferred calls run either way
HEnd(r) ==
    /\ pc[r] \in {"bypass", "serve"}
    /\ \E panics \in BOOLEAN :
        hist' = [hist EXCEPT ![r].panicked = panics]
    /\ pc' = [pc EXCEPT ![r] = IF pc[r] = "bypass" THEN "done" ELSE "defer3"]
    /\ UNCHANGED <<gzPool, gzAlloc, gz, req, gzw, rw, wrapped, holder, lastUse>>
    /\ UNCHANGED <<chainVars, grpcVars, httpVars>>

\* the deferred func: the footer and Content-Length block
GzDeferred(r) ==
    /\ pc[r] = "defer3"
    /\ IF wrapped[r].written < 0
       THEN /\ gz' = [gz EXCEPT ![gzw[r]] = GzWriterInit("discard")]
            /\ lastUse' = Use(r, gzw[r], "Reset")
       ELSE UNCHANGED <<gz, lastUse>>
    /\ IF wrapped[r].written > -1
       THEN rw' = [rw EXCEPT ![r].hdr.cl = Itoa(wrapped[r].written)]
       ELSE rw' = rw
    /\ pc' = [pc EXCEPT ![r] = "defer2"]
    /\ UNCHANGED <<gzPool, gzAlloc, req, gzw, wrapped, hist, holder>>
    /\ UNCHANGED <<chainVars, grpcVars, httpVars>>

\* a Put that is not deferred: a panic of the handler skips it
GzPutUnlessPanicked(r) ==
    /\ pc[r] = "defer2"
    /\ IF hist[r].panicked
       THEN UNCHANGED <<gzPool, holder, hist>>
       ELSE /\ gzPool' = gzPool \cup {gzw[r]}
            /\ holder' = [holder EXCEPT ![gzw[r]] = "pool"]
            /\ hist' = [hist EXCEPT ![r].puts = @ + 1]
    /\ pc' = [pc EXCEPT ![r] = "defer1"]
    /\ UNCHANGED <<gzAlloc, gz, req, gzw, rw, wrapped, lastUse>>
    /\ UNCHANGED <<chainVars, grpcVars, httpVars>>

\* defer gzPool.Put(gzw): registered after the Close, so it runs before it
GzPut(r) ==
    /\ pc[r] = "defer2"
    /\ gzPool' = gzPool \cup {gzw[r]}
    /\ holder' = [holder EXCEPT ![gzw[r]] = "pool"]
    /\ hist' = [hist EXCEPT ![r].puts = @ + 1]
    /\ pc' = [pc EXCEPT ![r] = "defer1"]
    /\ UNCHANGED <<gzAlloc, gz, req, gzw, rw, wrapped, lastUse>>
    /\ UNCHANGED <<chainVars, grpcVars, httpVars>>

\* defer gzw.Close(): registered first, so it runs last
GzClose(r) ==
    /\ pc[r] = "defer1"
    /\ LET res == GzWriterClose(gz[gzw[r]]) IN
        /\ gz' = [gz EXCEPT ![gzw[r]] = res.z]
        /\ rw' = Deliver(rw, gz[gzw[r]].w, res.out)
    /\ lastUse' = Use(r, gzw[r], "Close")
    /\ pc' = [pc EXCEPT ![r] = "done"]
    /\ UNCHANGED <<gzPool, gzAlloc, req, gzw, wrapped, hist, holder>>
    /\ UNCHANGED <<chainVars, grpcVars, httpVars>>

GzipNext ==
    \E r \in Requests :
        \/ GzStart(r)
        \/ GzGet(r)
        \/ GzReset(r)
        \/ HWriteDirect(r)
        \/ HWriteGz(r)
        \/ HEnd(r)
        \/ GzDeferred(r)
        \/ GzPut(r)
        \/ GzClose(r)


(***************************************************************************)
(* grpc.Server wrapper: ListenAndServe, Shutdown, BindCtx,                 *)
(* SetServingStatus, with the parts of google.golang.org/grpc they drive:  *)
(* health.Server (status map and shutdown flag) and grpc.Server (Serve,    *)
(* GracefulStop: the listener set, the quit and done events, the serve     *)
(* wait group and the open connections).                                   *)
(***************************************************************************)
Callers == {"waiter", "user"}
Statuses == {"SERVING", "NOT_SERVING"}

\* health.Server.SetServingStatus: ignored once the health server is shut down
HealthSet(h, status) == IF h.shutdown THEN h ELSE [h EXCEPT !.status = status]

\* health.Server.Shutdown: every service NOT_SERVING, later changes ignored
HealthShutdown(h) == [status |-> "NOT_SERVING", shutdown |-> TRUE]

GrpcInit ==
    /\ cfgListener \in BOOLEAN
    /\ health = [status |-> "SERVING", shutdown |-> FALSE]
    /\ srv = [lis |-> TRUE, registered |-> FALSE, quit |-> FALSE, done |-> FALSE,
              serveWG |-> 0, conns |-> 0]
    /\ lasPc = "idle"
    /\ lasErr = "none"
    /\ sdPc = [c \in Callers |-> "idle"]
    /\ ctx = [parent |-> FALSE, derived |-> FALSE]
    /\ bindPc = [bound |-> FALSE, waiter |-> "none", fn |-> "idle", done |-> FALSE]
    /\ ghist = [listened |-> FALSE, registered |-> FALSE, extFail |-> FALSE,
                waiterShutdowns |-> 0, setTick |-> 0, lastSet |-> "none",
                lastCheck |-> "none"]

GrpcIdle ==
    /\ cfgListener = TRUE
    /\ health = [status |-> "SERVING", shutdown |-> FALSE]
    /\ srv = [lis |-> TRUE, registered |-> FALSE, quit |-> FALSE, done |-> FALSE,
              serveWG |-> 0, conns |-> 0]
    /\ lasPc = "idle"
    /\ lasErr = "none"
    /\ sdPc = [c \in Callers |-> "idle"]
    /\ ctx = [parent |-> FALSE, derived |-> FALSE]
    /\ bindPc = [bound |-> FALSE, waiter |-> "none", fn |-> "idle", done |-> FALSE]
    /\ ghist = [listened |-> FALSE, registered |-> FALSE, extFail |-> FALSE,
                waiterShutdowns |-> 0, setTick |-> 0, lastSet |-> "none",
                lastCheck |-> "none"]

\* Server.SetServingStatus(service "", status), called by the application
SetServingStatus ==
    /\ \E status \in Statuses :
        /\ health' = HealthSet(health, status)
        /\ ghist' = [ghist EXCEPT !.setTick = 1 - @, !.lastSet = status]
    /\ UNCHANGED <<cfgListener, srv, lasPc, lasErr, sdPc, ctx, bindPc>>
    /\ UNCHANGED <<chainVars, gzipVars, httpVars>>

\* lis, err := s.listener(): the configured listener, or net.Listen, which
\* can fail
LasListen ==
    /\ lasPc = "idle"
    /\ \E ok \in BOOLEAN :
        /\ cfgListener => ok
        /\ IF ok
           THEN /\ lasPc' = "listened"
                /\ lasErr' = lasErr
                /\ ghist' = [ghist EXCEPT !.listened = TRUE]
           ELSE /\ lasPc' = "returned"
                /\ lasErr' = "listen"
                /\ ghist' = ghist
    /\ UNCHANGED <<cfgListener, health, srv, sdPc, ctx, bindPc>>
    /\ UNCHANGED <<chainVars, gzipVars, httpVars>>

\* ListenAndServe without its SetServingStatus("", SERVING)
LasSetServingSkipped ==
    /\ lasPc = "listened"
    /\ lasPc' = "serve"
    /\ UNCHANGED <<cfgListener, health, srv, lasErr, sdPc, ctx, bindPc, ghist>>
    /\ UNCHANGED <<chainVars, gzipVars, httpVars>>

\* s.health.SetServingStatus("", SERVING); the NOT_SERVING call is deferred
LasSetServing ==
    /\ lasPc = "listened"
    /\ health' = HealthSet(health, "SERVING")
    /\ lasPc' = "serve"
    /\ UNCHANGED <<cfgListener, srv, lasErr, sdPc, ctx, bindPc, ghist>>
    /\ UNCHANGED <<chainVars, gzipVars, httpVars>>

\* a Serve that does not notice that the server was stopped before
LasServeIgnoresStop ==
    /\ lasPc = "serve"
    /\ IF ~srv.lis
       THEN /\ lasErr' = "nil"
            /\ lasPc' = "deferStatus"
            /\ UNCHANGED <<srv, ghist>>
       ELSE /\ srv' = [srv EXCEPT !.registered = TRUE, !.serveWG = @ + 1]
            /\ ghist' = [ghist EXCEPT !.registered = TRUE]
            /\ lasPc' = "accept"
            /\ lasErr' = lasErr
    /\ UNCHANGED <<cfgListener, health, sdPc, ctx, bindPc>>
    /\ UNCHANGED <<chainVars, gzipVars, httpVars>>

\* return s.server.Serve(lis): after Stop or GracefulStop closed the
\* listeners Serve returns ErrServerStopped, else it registers lis
LasServe ==
    /\ lasPc = "serve"
    /\ IF ~srv.lis
       THEN /\ lasErr' = "ErrServerStopped"
            /\ lasPc' = "deferStatus"
            /\ UNCHANGED <<srv, ghist>>
       ELSE /\ srv' = [srv EXCEPT !.registered = TRUE, !.serveWG = @ + 1]
            /\ ghist' = [ghist EXCEPT !.registered = TRUE]
            /\ lasPc' = "accept"
            /\ lasErr' = lasErr
    /\ UNCHANGED <<cfgListener, health, sdPc, ctx, bindPc>>
    /\ UNCHANGED <<chainVars, gzipVars, httpVars>>

\* Serve's accept loop takes a connection
Connect ==
    /\ lasPc = "accept"
    /\ srv.registered
    /\ srv.conns < MaxConns
    /\ srv' = [srv EXCEPT !.conns = @ + 1]
    /\ UNCHANGED <<cfgListener, health, lasPc, lasErr, sdPc, ctx, bindPc, ghist>>
    /\ UNCHANGED <<chainVars, gzipVars, httpVars>>

\* a connection's RPCs end and it closes
ConnFinish ==
    /\ srv.conns > 0
    /\ srv' = [srv EXCEPT !.conns = @ - 1]
    /\ UNCHANGED <<cfgListener, health, lasPc, lasErr, sdPc, ctx, bindPc, ghist>>
    /\ UNCHANGED <<chainVars, gzipVars, httpVars>>

\* a client on an open connection calls the health service's Check
HealthCheck ==
    /\ srv.conns > 0
    /\ ghist' = [ghist EXCEPT !.lastCheck = health.status]
    /\ UNCHANGED <<cfgListener, health, srv, lasPc, lasErr, sdPc, ctx, bindPc>>
    /\ UNCHANGED <<chainVars, gzipVars, httpVars>>

\* lis.Accept fails: the listener was closed by GracefulStop, or it failed
\* on its own; Serve returns nil if quit has fired, else the error
LasAcceptErr ==
    /\ lasPc = "accept"
    /\ \E external \in BOOLEAN :
        /\ ~external => ~srv.registered
        /\ lasErr' = IF srv.quit THEN "nil" ELSE "accept"
        /\ ghist' = [ghist EXCEPT !.extFail = @ \/ ~srv.quit]
    /\ lasPc' = "serveDefer"
    /\ UNCHANGED <<cfgListener, health, srv, sdPc, ctx, bindPc>>
    /\ UNCHANGED <<chainVars, gzipVars, httpVars>>

\* Serve's deferred calls: the listener is removed, serveWG.Done(), and if
\* quit has fired Serve blocks until the stop is done
LasServeDefer ==
    /\ lasPc = "serveDefer"
    /\ srv' = [srv EXCEPT !.registered = FALSE, !.serveWG = @ - 1]
    /\ lasPc' = IF srv.quit THEN "waitDone" ELSE "deferStatus"
    /\ UNCHANGED <<cfgListener, health, lasErr, sdPc, ctx, bindPc, ghist>>
    /\ UNCHANGED <<chainVars, gzipVars, httpVars>>

\* <-s.done.Done()
LasWaitDone ==
    /\ lasPc = "waitDone"
    /\ srv.done
    /\ lasPc' = "deferStatus"
    /\ UNCHANGED <<cfgListener, health, srv, lasErr, sdPc, ctx, bindPc, ghist>>
    /\ UNCHANGED <<chainVars, gzipVars, httpVars>>

\* the deferred s.health.SetServingStatus("", NOT_SERVING); ListenAndServe
\* returns
LasReturn ==
    /\ lasPc = "deferStatus"
    /\ health' = HealthSet(health, "NOT_SERVING")
    /\ lasPc' = "returned"
    /\ UNCHANGED <<cfgListener, srv, lasErr, sdPc, ctx, bindPc, ghist>>
    /\ UNCHANGED <<chainVars, gzipVars, httpVars>>


\* the application (or a test cleanup) calls s.Shutdown()
UserShutdown ==
    /\ sdPc["user"] = "idle"
    /\ sdPc' = [sdPc EXCEPT !["user"] = "called"]
    /\ UNCHANGED <<cfgListener, health, srv, lasPc, lasErr, ctx, bindPc, ghist>>
    /\ UNCHANGED <<chainVars, gzipVars, httpVars>>

\* Shutdown: s.health.Shutdown()
SdHealth(c) ==
    /\ sdPc[c] = "called"
    /\ health' = HealthShutdown(health)
    /\ sdPc' = [sdPc EXCEPT ![c] = "stop"]
    /\ UNCHANGED <<cfgListener, srv, lasPc, lasErr, ctx, bindPc, ghist>>
    /\ UNCHANGED <<chainVars, gzipVars, httpVars>>

\* Shutdown: s.server.GracefulStop() begins: s.quit.Fire()
SdQuit(c) ==
    /\ sdPc[c] = "stop"
    /\ srv' = [srv EXCEPT !.quit = TRUE]
    /\ sdPc' = [sdPc EXCEPT ![c] = "close"]
    /\ UNCHANGED <<cfgListener, health, lasPc, lasErr, ctx, bindPc, ghist>>
    /\ UNCHANGED <<chainVars, gzipVars, httpVars>>

\* GracefulStop: the listeners are closed and s.lis becomes nil
SdCloseListeners(c) ==
    /\ sdPc[c] = "close"
    /\ srv' = [srv EXCEPT !.lis = FALSE, !.registered = FALSE]
    /\ sdPc' = [sdPc EXCEPT ![c] = "waitServe"]
    /\ UNCHANGED <<cfgListener, health, lasPc, lasErr, ctx, bindPc, ghist>>
    /\ UNCHANGED <<chainVars, gzipVars, httpVars>>

\* GracefulStop: s.serveWG.Wait(), then the connections are drained
SdWaitServe(c) ==
    /\ sdPc[c] = "waitServe"
    /\ srv.serveWG = 0
    /\ sdPc' = [sdPc EXCEPT ![c] = "waitConns"]
    /\ UNCHANGED <<cfgListener, health, srv, lasPc, lasErr, ctx, bindPc, ghist>>
    /\ UNCHANGED <<chainVars, gzipVars, httpVars>>

\* GracefulStop: no connection is left; s.done.Fire() and Shutdown returns
SdFinish(c) ==
    /\ sdPc[c] = "waitConns"
    /\ srv.conns = 0
    /\ srv' = [srv EXCEPT !.done = TRUE]
    /\ sdPc' = [sdPc EXCEPT ![c] = "returned"]
    /\ UNCHANGED <<cfgListener, health, lasPc, lasErr, ctx, bindPc, ghist>>
    /\ UNCHANGED <<chainVars, gzipVars, httpVars>>

\* BindCtx: ctx, cancel := context.WithCancel(ctx); the waiter is started
BindCtx ==
    /\ ~bindPc.bound
    /\ bindPc' = [bindPc EXCEPT !.bound = TRUE, !.waiter = "wait"]
    /\ ctx' = [ctx EXCEPT !.derived = ctx.parent]
    /\ UNCHANGED <<cfgListener, health, srv, lasPc, lasErr, sdPc, ghist>>
    /\ UNCHANGED <<chainVars, gzipVars, httpVars>>

\* the context given to BindCtx is cancelled; so is the one derived from it
ParentCancel ==
    /\ ~ctx.parent
    /\ ctx' = [parent |-> TRUE, derived |-> bindPc.bound]
    /\ UNCHANGED <<cfgListener, health, srv, lasPc, lasErr, sdPc, bindPc, ghist>>
    /\ UNCHANGED <<chainVars, gzipVars, httpVars>>

\* the waiter: <-ctx.Done() returns and it calls s.Shutdown()
WaiterWake ==
    /\ bindPc.waiter = "wait"
    /\ ctx.derived
    /\ bindPc' = [bindPc EXCEPT !.waiter = "shutdown"]
    /\ sdPc' = [sdPc EXCEPT !["waiter"] = "called"]
    /\ ghist' = [ghist EXCEPT !.waiterShutdowns = @ + 1]
    /\ UNCHANGED <<cfgListener, health, srv, lasPc, lasErr, ctx>>
    /\ UNCHANGED <<chainVars, gzipVars, httpVars>>

\* the waiter: Shutdown returned; the deferred close(done) runs
WaiterExit ==
    /\ bindPc.waiter = "shutdown"
    /\ sdPc["waiter"] = "returned"
    /\ bindPc' = [bindPc EXCEPT !.waiter = "exited", !.done = TRUE]
    /\ UNCHANGED <<cfgListener, health, srv, lasPc, lasErr, sdPc, ctx, ghist>>
    /\ UNCHANGED <<chainVars, gzipVars, httpVars>>

\* shutdownFn: cancel()
FnCancel ==
    /\ bindPc.bound
    /\ bindPc.fn = "idle"
    /\ ctx' = [ctx EXCEPT !.derived = TRUE]
    /\ bindPc' = [bindPc EXCEPT !.fn = "waitDone"]
    /\ UNCHANGED <<cfgListener, health, srv, lasPc, lasErr, sdPc, ghist>>
    /\ UNCHANGED <<chainVars, gzipVars, httpVars>>

\* a shutdownFn that returns after cancel() without waiting
FnReturnNoWait ==
    /\ bindPc.fn = "waitDone"
    /\ bindPc' = [bindPc EXCEPT !.fn = "returned"]
    /\ UNCHANGED <<cfgListener, health, srv, lasPc, lasErr, sdPc, ctx, ghist>>
    /\ UNCHANGED <<chainVars, gzipVars, httpVars>>

\* shutdownFn: <-done
FnReturn ==
    /\ bindPc.fn = "waitDone"
    /\ bindPc.done
    /\ bindPc' = [bindPc EXCEPT !.fn = "returned"]
    /\ UNCHANGED <<cfgListener, health, srv, lasPc, lasErr, sdPc, ctx, ghist>>
    /\ UNCHANGED <<chainVars, gzipVars, httpVars>>

GrpcNext ==
    \/ SetServingStatus
    \/ LasListen
    \/ LasSetServing
    \/ LasServe
    \/ Connect
    \/ ConnFinish
    \/ HealthCheck
    \/ LasAcceptErr
    \/ LasServeDefer
    \/ LasWaitDone
    \/ LasReturn
    \/ UserShutdown
    \/ \E c \in Callers :
        \/ SdHealth(c)
        \/ SdQuit(c)
        \/ SdCloseListeners(c)
        \/ SdWaitServe(c)
        \/ SdFinish(c)
    \/ BindCtx
    \/ ParentCancel
    \/ WaiterWake
    \/ WaiterExit
    \/ FnCancel
    \/ FnReturn

(***************************************************************************)
(* The HTTP middlewares Recover, Logging, Metric and Authentication and    *)
(* the *ResponseWriter they share                                          *)
(***************************************************************************)
MaxOps == 2     \* calls a handler makes on its writer
MaxKeys == 2    \* length of the keys and users handed to MiddlewareAuthentication
MinStatus == 100
MaxStatus == 599

PReqs == {"p1", "p2"}
ApiKeyHeader == "X-API-Key"
KeySet == {"", "k1", "k2"}
UserSet == {"u1", "u2"}
\* values of the X-API-Key header of a request ("": the header is not set)
ApiKeys == KeySet \cup {"k3"}
\* statuses a handler sets
HandlerStatuses == {201, 404, 500}
\* a Write of a bytes of which the underlying writer accepts n
HandlerWrites == {<<1, 1>>, <<2, 1>>}

\* the middlewares in the order the chain applies them, outermost first
LayerOrder == <<"recover", "logging", "metric", "auth">>
Configs == [{"recover", "logging", "metric", "auth"} -> BOOLEAN]
Layers(cfg) == SelectSeq(LayerOrder, LAMBDA l : cfg[l]) \o <<"handler">>

\* a call on a writer: op(a), of which the underlying writer reports n
Call(op, a, n, msg) == <<op, a, n, msg>>
COp(c) == c[1]
CArg(c) == c[2]
CRet(c) == c[3]
CMsg(c) == c[4]

\* the writer of the server: the first WriteHeader sets the status of the
\* response, a Write before any WriteHeader sets 200
UnderApply(under, c) ==
    [under EXCEPT !.log = Append(@, c),
                  !.status = IF @ = 0 /\ COp(c) = "WriteHeader" THEN CArg(c)
                             ELSE IF @ = 0 /\ COp(c) = "Write" THEN 200
                             ELSE @]

\* (*ResponseWriter).WriteHeader, after the call was forwarded
RwWriteHeader(w, statusCode) == [w EXCEPT !.status = statusCode]

\* a Write that adds the length of p, whatever the underlying writer reports
RwWriteCountsLen(w, a, n) == [w EXCEPT !.written = @ + a]

\* (*ResponseWriter).Write of a bytes, after the underlying writer reported n
RwWrite(w, a, n) == [w EXCEPT !.written = @ + n]

\* (*ResponseWriter).GroupedStatus
GroupedStatus(w) == (w.status \div 100) * 100

\* the call c on the writer ref (0: the server's writer, k: the wrapper k),
\* forwarded down to the server's writer and recorded on the way back
RECURSIVE WCall(_, _, _, _)
WCall(wrs, under, ref, c) ==
    IF ref = 0
    THEN [wrs |-> wrs, under |-> UnderApply(under, c), n |-> CRet(c)]
    ELSE LET res == WCall(wrs, under, wrs[ref].to, c)
             rec == CASE COp(c) = "WriteHeader" -> RwWriteHeader(res.wrs[ref], CArg(c))
                      [] COp(c) = "Write" -> RwWrite(res.wrs[ref], CArg(c), res.n)
                      [] OTHER -> res.wrs[ref]
         IN  [wrs |-> [res.wrs EXCEPT ![ref] = rec], under |-> res.under, n |-> res.n]

RECURSIVE WCalls(_, _, _, _)
WCalls(wrs, under, ref, cs) ==
    IF cs = <<>> THEN [wrs |-> wrs, under |-> under]
    ELSE LET res == WCall(wrs, under, ref, Head(cs))
         IN  WCalls(res.wrs, res.under, ref, Tail(cs))

\* Encode(rw, status, &ErrResponse{Message: errMsg})
EncodeErr(wrs, under, ref, status, errMsg) ==
    WCalls(wrs, under, ref,
           <<Call("Header", 0, 0, <<"Content-Type", "application/json">>),
             Call("WriteHeader", status, 0, <<>>),
             Call("Write", Len(errMsg), Len(errMsg), errMsg)>>)

\* http.Error(rw, msg, code)
HttpError(wrs, under, ref, msg, code) ==
    WCalls(wrs, under, ref,
           <<Call("Header", 0, 0, <<"Content-Type", "text/plain; charset=utf-8">>),
             Call("WriteHeader", code, 0, <<>>),
             Call("Write", Len(msg), Len(msg), msg)>>)

MsgMissingKey == <<"please set the ", ApiKeyHeader, " header">>
\* a message that leaves the key out
MsgUnrecognizedNoKey(key) == <<"unrecognized API key ">>

MsgUnrecognized(key) == <<"unrecognized API key ", "\"", key, "\"">>
MsgNoFlusher == <<"ResponseWriter does not implement http.Flusher">>

\* WrapResponseWriter applied to the writer ref of a request (since is
\* history: the calls the server's writer had received before)
Wrapped(wrs, under, ref) ==
    LET k == WrapResponseWriter(IF ref # 0 THEN "wrapped" ELSE under.kind) IN
    IF ~k.ok THEN [ok |-> FALSE, wrs |-> wrs, ref |-> ref]
    ELSE IF k.fresh
    THEN [ok |-> TRUE,
          wrs |-> Append(wrs, [status |-> 200, written |-> 0, to |-> ref, user |-> "",
                               since |-> Len(under.log)]),
          ref |-> Len(wrs) + 1]
    ELSE [ok |-> TRUE, wrs |-> wrs, ref |-> ref]

\* a table in which the first of two equal keys wins
RECURSIVE BuildLookupFirstWins(_, _, _, _)
BuildLookupFirstWins(ks, us, i, m) ==
    IF i > Len(ks) THEN m
    ELSE BuildLookupFirstWins(ks, us, i + 1,
            [k \in DOMAIN m \cup {ks[i]} |-> IF k \in DOMAIN m THEN m[k] ELSE us[i]])

\* the loop of MiddlewareAuthentication: lookup[key] = users[i], from i on
RECURSIVE BuildLookup(_, _, _, _)
BuildLookup(ks, us, i, m) ==
    IF i > Len(ks) THEN m
    ELSE BuildLookup(ks, us, i + 1,
            [k \in DOMAIN m \cup {ks[i]} |-> IF k = ks[i] THEN us[i] ELSE m[k]])

EmptyLookup == [k \in {} |-> ""]

\* slog level of the "Served" entry
LogLevelWarnFrom500(status) ==
    IF 400 <= status /\ status <= 500 THEN "warn"
    ELSE IF 500 < status THEN "error"
    ELSE "info"

LogLevel(status) ==
    IF 400 <= status /\ status < 500 THEN "warn"
    ELSE IF 500 <= status THEN "error"
    ELSE "info"

NoReq == [key |-> "", method |-> "", path |-> ""]
NoUnder == [kind |-> "flusher", status |-> 0, log |-> <<>>]
NoOut == [nextCalls |-> 0, seen |-> {}, recovered |-> FALSE, logs |-> <<>>,
          counts |-> <<>>, atCall |-> 0]

pipeConst == <<pcfg, keys, users, lookup>>
notPipe == <<chainVars, gzipVars, grpcVars, levelVars, moreVars>>

Top(r) == pstack[r][Len(pstack[r])]
Pop(s) == SubSeq(s, 1, Len(s) - 1)
Frame(layer, w, ok) == [ok |-> ok, w |-> w, layer |-> layer]
\* the request r is about to enter the layer
Down(r, layer) ==
    /\ ppc[r] = "down"
    /\ Layers(pcfg)[Len(pstack[r]) + 1] = layer
\* the call of next made by the layer has returned or panicked
Leaving(r, layer) ==
    /\ ppc[r] \in {"up", "panic"}
    /\ pstack[r] # <<>>
    /\ Top(r).layer = layer

\* a chain with the table of MiddlewareAuthentication(ks, us) and the
\* requests of active about to arrive
PipeFresh(ks, us, active) ==
    /\ keys = ks
    /\ users = us
    /\ lookup = BuildLookup(ks, us, 1, EmptyLookup)
    /\ gauge = 0
    /\ ppc = [r \in PReqs |-> IF r \in active THEN "new" ELSE "off"]
    /\ pstack = [r \in PReqs |-> <<>>]
    /\ pin = [r \in PReqs |-> NoReq]
    /\ punder = [r \in PReqs |-> NoUnder]
    /\ pwr = [r \in PReqs |-> <<>>]
    /\ pcur = [r \in PReqs |-> 0]
    /\ pops = [r \in PReqs |-> <<>>]
    /\ pout = [r \in PReqs |-> NoOut]

PipeIdle ==
    /\ pcfg = [l \in {"recover", "logging", "metric", "auth"} |-> FALSE]
    /\ PipeFresh(<<>>, <<>>, {})

\* one request through any chain, the table holding a key twice
PipeInit ==
    /\ pcfg \in Configs
    /\ PipeFresh(<<"k1", "k1">>, <<"u1", "u2">>, {"p1"})

Tables ==
    UNION {[ks : [1..n -> KeySet], us : [1..n -> UserSet]] : n \in 0..MaxKeys}

\* one request through MiddlewareAuthentication, alone or inside
\* MiddlewareLogging, for any table
AuthInit ==
    /\ pcfg \in {c \in Configs : c["auth"] /\ ~c["recover"] /\ ~c["metric"]}
    /\ \E t \in Tables : PipeFresh(t.ks, t.us, {"p1"})

\* concurrent requests through MiddlewareMetric
MetricInit ==
    /\ pcfg \in {c \in Configs : c["metric"] /\ ~c["logging"] /\ ~c["auth"]}
    /\ PipeFresh(<<>>, <<>>, PReqs)

\* the server hands the request r and a writer to the chain
PStart(r) ==
    /\ ppc[r] = "new"
    /\ \E kind \in {"flusher", "plain"},
          key \in (IF pcfg["auth"] THEN ApiKeys ELSE {""}) :
        /\ punder' = [punder EXCEPT ![r] = [NoUnder EXCEPT !.kind = kind]]
        /\ pin' = [pin EXCEPT ![r] = [key |-> key, method |-> "GET", path |-> "/"]]
    /\ ppc' = [ppc EXCEPT ![r] = "down"]
    /\ UNCHANGED <<gauge, pstack, pwr, pcur, pops, pout, pipeConst, notPipe>>

\* MiddlewareRecover: the deferred function is registered, next is called
RecoverEnter(r) ==
    /\ Down(r, "recover")
    /\ pout' = [pout EXCEPT ![r].seen = @ \cup {"recover"}]
    /\ pstack' = [pstack EXCEPT ![r] = Append(@, Frame("recover", pcur[r], TRUE))]
    /\ UNCHANGED <<gauge, ppc, pin, punder, pwr, pcur, pops, pipeConst, notPipe>>

\* MiddlewareRecover: the deferred function runs: a panic is recovered and
\* logged, and the middleware returns
RecoverLeave(r) ==
    /\ Leaving(r, "recover")
    /\ pstack' = [pstack EXCEPT ![r] = Pop(@)]
    /\ ppc' = [ppc EXCEPT ![r] = "up"]
    /\ pout' = [pout EXCEPT ![r].recovered = @ \/ ppc[r] = "panic"]
    /\ UNCHANGED <<gauge, pin, punder, pwr, pcur, pops, pipeConst, notPipe>>

\* MiddlewareLogging up to the call of next
LoggingEnter(r) ==
    /\ Down(r, "logging")
    /\ pout' = [pout EXCEPT ![r].seen = @ \cup {"logging"}]
    /\ LET res == Wrapped(pwr[r], punder[r], pcur[r]) IN
       IF ~res.ok
       THEN LET e == HttpError(pwr[r], punder[r], pcur[r], MsgNoFlusher, 500) IN
            /\ pwr' = [pwr EXCEPT ![r] = e.wrs]
            /\ punder' = [punder EXCEPT ![r] = e.under]
            /\ ppc' = [ppc EXCEPT ![r] = "up"]
            /\ UNCHANGED <<pstack, pcur>>
       ELSE /\ pwr' = [pwr EXCEPT ![r] = res.wrs]
            /\ pcur' = [pcur EXCEPT ![r] = res.ref]
            /\ pstack' = [pstack EXCEPT ![r] = Append(@, Frame("logging", res.ref, TRUE))]
            /\ UNCHANGED <<punder, ppc>>
    /\ UNCHANGED <<gauge, pin, pops, pipeConst, notPipe>>

\* MiddlewareLogging after next: the "Served" entry, which a panic skips
LoggingLeave(r) ==
    /\ Leaving(r, "logging")
    /\ pstack' = [pstack EXCEPT ![r] = Pop(@)]
    /\ LET w == pwr[r][Top(r).w] IN
       pout' = [pout EXCEPT ![r].logs =
                  IF ppc[r] = "panic" THEN @
                  ELSE Append(@, [level |-> LogLevel(w.status),
                                  method |-> pin[r].method,
                                  path |-> pin[r].path,
                                  status |-> w.status,
                                  size |-> w.written,
                                  user |-> w.user])]
    /\ UNCHANGED <<gauge, ppc, pin, punder, pwr, pcur, pops, pipeConst, notPipe>>

\* Int64Gauge.Record: the gauge holds the value recorded last
GaugeRecord(g, v) == v

\* MiddlewareMetric up to the call of next
MetricEnter(r) ==
    /\ Down(r, "metric")
    /\ pout' = [pout EXCEPT ![r].seen = @ \cup {"metric"}]
    /\ gauge' = GaugeRecord(gauge, 1)
    /\ LET res == Wrapped(pwr[r], punder[r], pcur[r]) IN
       IF ~res.ok
       THEN LET e == HttpError(pwr[r], punder[r], pcur[r], MsgNoFlusher, 500) IN
            /\ pwr' = [pwr EXCEPT ![r] = e.wrs]
            /\ punder' = [punder EXCEPT ![r] = e.under]
            /\ ppc' = [ppc EXCEPT ![r] = "up"]
            /\ pstack' = [pstack EXCEPT ![r] = Append(@, Frame("metric", pcur[r], FALSE))]
            /\ UNCHANGED pcur
       ELSE /\ pwr' = [pwr EXCEPT ![r] = res.wrs]
            /\ pcur' = [pcur EXCEPT ![r] = res.ref]
            /\ pstack' = [pstack EXCEPT ![r] = Append(@, Frame("metric", res.ref, TRUE))]
            /\ UNCHANGED <<punder, ppc>>
    /\ UNCHANGED <<pin, pops, pipeConst, notPipe>>

\* MiddlewareMetric after next: the counter, which a panic and the early
\* return skip, then the deferred Record
MetricLeave(r) ==
    /\ Leaving(r, "metric")
    /\ pstack' = [pstack EXCEPT ![r] = Pop(@)]
    /\ pout' = [pout EXCEPT ![r].counts =
                  IF ppc[r] = "panic" \/ ~Top(r).ok THEN @
                  ELSE Append(@, [status |-> GroupedStatus(pwr[r][Top(r).w]), add |-> 1])]
    /\ gauge' = GaugeRecord(gauge, -1)
    /\ UNCHANGED <<ppc, pin, punder, pwr, pcur, pops, pipeConst, notPipe>>

\* MiddlewareAuthentication up to the call of next
AuthEnter(r) ==
    /\ Down(r, "auth")
    /\ pout' = [pout EXCEPT ![r].seen = @ \cup {"auth"}]
    /\ LET key == pin[r].key
           res == Wrapped(pwr[r], punder[r], pcur[r])
           e == IF key = ""
                THEN EncodeErr(pwr[r], punder[r], pcur[r], 401, MsgMissingKey)
                ELSE IF key \notin DOMAIN lookup
                THEN EncodeErr(pwr[r], punder[r], pcur[r], 401, MsgUnrecognized(key))
                ELSE HttpError(pwr[r], punder[r], pcur[r], MsgNoFlusher, 500)
       IN
       IF key = "" \/ key \notin DOMAIN lookup \/ ~res.ok
       THEN /\ pwr' = [pwr EXCEPT ![r] = e.wrs]
            /\ punder' = [punder EXCEPT ![r] = e.under]
            /\ ppc' = [ppc EXCEPT ![r] = "up"]
            /\ UNCHANGED <<pstack, pcur>>
       ELSE /\ pwr' = [pwr EXCEPT ![r] = [res.wrs EXCEPT ![res.ref].user = lookup[key]]]
            /\ pcur' = [pcur EXCEPT ![r] = res.ref]
            /\ pstack' = [pstack EXCEPT ![r] = Append(@, Frame("auth", res.ref, TRUE))]
            /\ UNCHANGED <<punder, ppc>>
    /\ UNCHANGED <<gauge, pin, pops, pipeConst, notPipe>>

\* MiddlewareAuthentication returns what next returned
AuthLeave(r) ==
    /\ Leaving(r, "auth")
    /\ pstack' = [pstack EXCEPT ![r] = Pop(@)]
    /\ UNCHANGED <<gauge, ppc, pin, punder, pwr, pcur, pops, pout, pipeConst, notPipe>>

\* the innermost next.ServeHTTP: the handler starts
HandlerCall(r) ==
    /\ Down(r, "handler")
    /\ ppc' = [ppc EXCEPT ![r] = "handler"]
    /\ pout' = [pout EXCEPT ![r].nextCalls = @ + 1,
                            ![r].atCall = Len(punder[r].log)]
    /\ UNCHANGED <<gauge, pstack, pin, punder, pwr, pcur, pops, pipeConst, notPipe>>

\* the handler calls c on the writer it was given
HandlerDoes(r, c) ==
    /\ ppc[r] = "handler"
    /\ Len(pops[r]) < MaxOps
    /\ LET res == WCall(pwr[r], punder[r], pcur[r], c) IN
        /\ pwr' = [pwr EXCEPT ![r] = res.wrs]
        /\ punder' = [punder EXCEPT ![r] = res.under]
    /\ pops' = [pops EXCEPT ![r] = Append(@, c)]
    /\ UNCHANGED <<gauge, ppc, pstack, pin, pcur, pout, pipeConst, notPipe>>

HWriteHeader(r) ==
    \E code \in HandlerStatuses : HandlerDoes(r, Call("WriteHeader", code, 0, <<>>))

HWrite(r) ==
    \E p \in HandlerWrites : HandlerDoes(r, Call("Write", p[1], p[2], <<>>))

\* Flush needs a writer that has it
HFlush(r) ==
    /\ pcur[r] # 0 \/ punder[r].kind = "flusher"
    /\ HandlerDoes(r, Call("Flush", 0, 0, <<>>))

HHeader(r) == HandlerDoes(r, Call("Header", 0, 0, <<>>))

\* the handler calls WrapResponseWriter on its writer and goes on with the result
HWrap(r) ==
    /\ ppc[r] = "handler"
    /\ Len(pops[r]) < MaxOps
    /\ LET res == Wrapped(pwr[r], punder[r], pcur[r]) IN
        /\ pwr' = [pwr EXCEPT ![r] = res.wrs]
        /\ pcur' = [pcur EXCEPT ![r] = res.ref]
    /\ pops' = [pops EXCEPT ![r] = Append(@, Call("Wrap", 0, 0, <<>>))]
    /\ UNCHANGED <<gauge, ppc, pstack, pin, punder, pout, pipeConst, notPipe>>

HReturn(r) ==
    /\ ppc[r] = "handler"
    /\ ppc' = [ppc EXCEPT ![r] = "up"]
    /\ UNCHANGED <<gauge, pstack, pin, punder, pwr, pcur, pops, pout, pipeConst, notPipe>>

HPanic(r) ==
    /\ ppc[r] = "handler"
    /\ ppc' = [ppc EXCEPT ![r] = "panic"]
    /\ UNCHANGED <<gauge, pstack, pin, punder, pwr, pcur, pops, pout, pipeConst, notPipe>>

\* the outermost middleware has returned to the server, or its panic
\* reaches the server
PDone(r) ==
    /\ ppc[r] \in {"up", "panic"}
    /\ pstack[r] = <<>>
    /\ ppc' = [ppc EXCEPT ![r] = IF ppc[r] = "up" THEN "done" ELSE "crashed"]
    /\ UNCHANGED <<gauge, pstack, pin, punder, pwr, pcur, pops, pout, pipeConst, notPipe>>

PipeNext ==
    \/ \E r \in PReqs : PStart(r)
    \/ \E r \in PReqs : RecoverEnter(r)
    \/ \E r \in PReqs : RecoverLeave(r)
    \/ \E r \in PReqs : LoggingEnter(r)
    \/ \E r \in PReqs : LoggingLeave(r)
    \/ \E r \in PReqs : MetricEnter(r)
    \/ \E r \in PReqs : MetricLeave(r)
    \/ \E r \in PReqs : AuthEnter(r)
    \/ \E r \in PReqs : AuthLeave(r)
    \/ \E r \in PReqs : HandlerCall(r)
    \/ \E r \in PReqs : HWriteHeader(r)
    \/ \E r \in PReqs : HWrite(r)
    \/ \E r \in PReqs : HFlush(r)
    \/ \E r \in PReqs : HHeader(r)
    \/ \E r \in PReqs : HWrap(r)
    \/ \E r \in PReqs : HReturn(r)
    \/ \E r \in PReqs : HPanic(r)
    \/ \E r \in PReqs : PDone(r)

AuthNext ==
    \/ \E r \in PReqs : PStart(r)
    \/ \E r \in PReqs : LoggingEnter(r)
    \/ \E r \in PReqs : LoggingLeave(r)
    \/ \E r \in PReqs : AuthEnter(r)
    \/ \E r \in PReqs : AuthLeave(r)
    \/ \E r \in PReqs : HandlerCall(r)
    \/ \E r \in PReqs : HReturn(r)
    \/ \E r \in PReqs : PDone(r)

MetricNext ==
    \/ \E r \in PReqs : PStart(r)
    \/ \E r \in PReqs : RecoverEnter(r)
    \/ \E r \in PReqs : RecoverLeave(r)
    \/ \E r \in PReqs : MetricEnter(r)
    \/ \E r \in PReqs : MetricLeave(r)
    \/ \E r \in PReqs : HandlerCall(r)
    \/ \E r \in PReqs : HWriteHeader(r)
    \/ \E r \in PReqs : HReturn(r)
    \/ \E r \in PReqs : HPanic(r)
    \/ \E r \in PReqs : PDone(r)

\* the level of the "Served" entry for one recorded status
LevelIdle ==
    /\ lvStatus = 0
    /\ lvLevel = "idle"

LevelInit ==
    /\ lvStatus \in MinStatus..MaxStatus
    /\ lvLevel = "none"

LevelChoose ==
    /\ lvLevel = "none"
    /\ lvLevel' = LogLevel(lvStatus)
    /\ UNCHANGED <<lvStatus, pipeVars, chainVars, gzipVars, grpcVars, moreVars>>

LevelNext == LevelChoose

(***************************************************************************)
(* ServerConfig.Validate and NewServer                                     *)
(***************************************************************************)
MaxPort == 4    \* ports run from -MaxPort to MaxPort

Hosts == {"", "localhost"}
Ports == (0 - MaxPort)..MaxPort
\* a *ServerConfig: nil, or a config with or without a Listener
NilServerConfig == [isNil |-> TRUE, Listener |-> FALSE, Host |-> "", Port |-> 0]
ServerConfigs ==
    {NilServerConfig}
        \cup [isNil : {FALSE}, Listener : BOOLEAN, Host : Hosts, Port : Ports]

\* a Validate that lets a negative port pass
ValidateAnyPort(cfg) ==
    IF cfg.isNil THEN "config is nil"
    ELSE IF cfg.Listener
    THEN IF cfg.Host # "" THEN "listener and host cannot both be set"
         ELSE IF cfg.Port # 0 THEN "listener and port cannot both be set"
         ELSE ""
    ELSE IF cfg.Host = "" THEN "no listener provided and host is empty"
    ELSE ""

\* (*ServerConfig).Validate: the error returned ("": nil)
Validate(cfg) ==
    IF cfg.isNil THEN "config is nil"
    ELSE IF cfg.Listener
    THEN IF cfg.Host # "" THEN "listener and host cannot both be set"
         ELSE IF cfg.Port # 0 THEN "listener and port cannot both be set"
         ELSE ""
    ELSE IF cfg.Host = "" THEN "no listener provided and host is empty"
    ELSE IF cfg.Port < 0 THEN "no listener provided and port is negative"
    ELSE ""

\* NewServer: the server (made or not) and the error
NewServer(cfg) ==
    LET err == Validate(cfg) IN [server |-> err = "", err |-> err]

NoServer == [server |-> FALSE, err |-> "unset"]

notVal == <<chainVars, gzipVars, grpcVars, pipeVars, levelVars, recVars, respVars,
            rootVars, envVars, mapVars>>

ValIdle ==
    /\ vCfg = NilServerConfig
    /\ vErr = "idle"
    /\ vSrv = NoServer

ValInit ==
    /\ vCfg \in ServerConfigs
    /\ vErr = "unset"
    /\ vSrv = NoServer

CallValidate ==
    /\ vErr = "unset"
    /\ vErr' = Validate(vCfg)
    /\ UNCHANGED <<vCfg, vSrv, notVal>>

CallNewServer ==
    /\ vErr # "idle"
    /\ vSrv = NoServer
    /\ vSrv' = NewServer(vCfg)
    /\ UNCHANGED <<vCfg, vErr, notVal>>

ValNext == CallValidate \/ CallNewServer

(***************************************************************************)
(* recoverInterceptor: the counter of recovered panics and the rate        *)
(* limited log line                                                        *)
(***************************************************************************)
TicksPerSecond == 2   \* the clock advances in ticks of 1/TicksPerSecond s
MaxTicks == 5         \* the clock stops here
MaxPanics == 4        \* panics in one run

\* the RPCs that run at the same time
RCalls == {"c1", "c2"}

Min(a, b) == IF a < b THEN a ELSE b

\* a limiter whose Allow takes no token
LimiterAllowNoTake(lim, now) ==
    LET tokens == Min(TicksPerSecond, lim.tokens + (now - lim.last)) IN
    IF tokens >= TicksPerSecond
    THEN [ok |-> TRUE, lim |-> [tokens |-> tokens, last |-> now]]
    ELSE [ok |-> FALSE, lim |-> lim]

\* rate.NewLimiter(rate.Every(time.Second), 1).Allow() at the time now:
\* tokens are counted in 1/TicksPerSecond, one token refills per second up
\* to the burst of one, and an Allow that finds a whole token takes it
LimiterAllow(lim, now) ==
    LET tokens == Min(TicksPerSecond, lim.tokens + (now - lim.last)) IN
    IF tokens >= TicksPerSecond
    THEN [ok |-> TRUE, lim |-> [tokens |-> tokens - TicksPerSecond, last |-> now]]
    ELSE [ok |-> FALSE, lim |-> lim]

NoLimiter == [tokens |-> 0, last |-> 0]
NoRecHist == [panics |-> 0, counter |-> 0, logs |-> <<>>, codes |-> <<>>]

notRec == <<chainVars, gzipVars, grpcVars, pipeVars, levelVars, valVars, respVars,
            rootVars, envVars, mapVars>>

RecIdle ==
    /\ rcNow = 0
    /\ rcLim = NoLimiter
    /\ rcPc = [c \in RCalls |-> "off"]
    /\ rcHist = NoRecHist

\* recoverInterceptor(): the limiter starts with its one token
RecInit ==
    /\ rcNow = 0
    /\ rcLim = [NoLimiter EXCEPT !.tokens = TicksPerSecond]
    /\ rcPc = [c \in RCalls |-> "idle"]
    /\ rcHist = NoRecHist

\* time passes
RecTick ==
    /\ \E c \in RCalls : rcPc[c] # "off"
    /\ rcNow < MaxTicks
    /\ rcNow' = rcNow + 1
    /\ UNCHANGED <<rcLim, rcPc, rcHist, notRec>>

\* the handler of the call c panics: the recovery handler is called
RecPanic(c) ==
    /\ rcPc[c] = "idle"
    /\ rcHist.panics < MaxPanics
    /\ rcPc' = [rcPc EXCEPT ![c] = "add"]
    /\ rcHist' = [rcHist EXCEPT !.panics = @ + 1]
    /\ UNCHANGED <<rcNow, rcLim, notRec>>

\* panicsCounter.Add(ctx, 1)
RecAdd(c) ==
    /\ rcPc[c] = "add"
    /\ rcPc' = [rcPc EXCEPT ![c] = "allow"]
    /\ rcHist' = [rcHist EXCEPT !.counter = @ + 1]
    /\ UNCHANGED <<rcNow, rcLim, notRec>>

\* if r.Allow() { slog.Error("Recovered from panic", ...) }
RecAllow(c) ==
    /\ rcPc[c] = "allow"
    /\ rcPc' = [rcPc EXCEPT ![c] = "return"]
    /\ LET res == LimiterAllow(rcLim, rcNow) IN
        /\ rcLim' = res.lim
        /\ rcHist' = [rcHist EXCEPT !.logs = IF res.ok THEN Append(@, rcNow) ELSE @]
    /\ UNCHANGED <<rcNow, notRec>>

\* return status.Errorf(codes.Internal, "%s", p)
RecReturn(c) ==
    /\ rcPc[c] = "return"
    /\ rcPc' = [rcPc EXCEPT ![c] = "idle"]
    /\ rcHist' = [rcHist EXCEPT !.codes = Append(@, "Internal")]
    /\ UNCHANGED <<rcNow, rcLim, notRec>>

RecNext ==
    \/ RecTick
    \/ \E c \in RCalls : RecPanic(c)
    \/ \E c \in RCalls : RecAdd(c)
    \/ \E c \in RCalls : RecAllow(c)
    \/ \E c \in RCalls : RecReturn(c)

(***************************************************************************)
(* resp.go: the JSON envelope of Encode / EncodeErr, Decode and            *)
(* DecodeAndClose                                                          *)
(***************************************************************************)
\* A Go value is <<type, is nil, payload>>.  The types: *ErrResponse, the
\* interface error, a struct type whose value implements error, int,
\* string, and chan (which encoding/json cannot marshal).
RespTypes == {"*ErrResponse", "error", "structError", "int", "string", "chan"}
RespMsgs == {"", "boom"}
RespStatuses == {200, 404, 500}

GoVal(type, isNil, payload) == <<type, isNil, payload>>
VType(v) == v[1]
VNil(v) == v[2]
VPayload(v) == v[3]

RespValues ==
    {GoVal(t, TRUE, "") : t \in {"*ErrResponse", "error"}}
        \cup {GoVal(t, FALSE, m) : t \in {"*ErrResponse", "error", "structError"},
                                  m \in RespMsgs}
        \cup {GoVal("int", FALSE, p) : p \in {"0", "7"}}
        \cup {GoVal("string", FALSE, p) : p \in {"", "hi"}}
        \cup {GoVal("chan", FALSE, "c")}

\* var v T
ZeroOf(type) ==
    CASE type \in {"*ErrResponse", "error", "chan"} -> GoVal(type, TRUE, "")
      [] type = "int" -> GoVal(type, FALSE, "0")
      [] OTHER -> GoVal(type, FALSE, "")

\* omitempty: a nil pointer or interface, 0 and "" are left out, a struct
\* never is
IsEmptyValue(v) ==
    CASE VType(v) \in {"*ErrResponse", "error"} -> VNil(v)
      [] VType(v) \in {"int", "string"} -> v = ZeroOf(VType(v))
      [] OTHER -> FALSE

\* An envelope is <<data, error>>; a field that is left out is <<>>, a field
\* that is there is <<value>>.  A body is <<kind, envelope>>.
Envelope(data, error) == <<data, error>>
EData(env) == env[1]
EError(env) == env[2]
EmptyEnvelope == Envelope(<<>>, <<>>)
NoBody == <<"none", EmptyEnvelope>>
Garbage == <<"garbage", EmptyEnvelope>>
JsonBody(env) == <<"json", env>>

\* Response[T]{Data, Error}
Response(data, error) == <<data, error>>

\* json.NewEncoder(rw).Encode(resp): nothing is written when a field that
\* is not left out cannot be marshalled
Marshal(resp) ==
    LET data == resp[1] IN
    IF VType(data) = "chan" THEN NoBody
    ELSE JsonBody(Envelope(IF IsEmptyValue(data) THEN <<>> ELSE <<data>>, resp[2]))

\* an Encode that puts an error value into data
EncodeAllToData(status, v) ==
    <<"application/json", status, Marshal(Response(v, <<>>))>>

\* Encode(rw, status, v) on a fresh writer: <<Content-Type, status, body>>
Encode(status, v) ==
    LET resp ==
            IF VType(v) = "*ErrResponse"
            THEN Response(ZeroOf(VType(v)), IF VNil(v) THEN <<>> ELSE <<VPayload(v)>>)
            ELSE IF VType(v) \in {"error", "structError"} /\ ~VNil(v)
            THEN Response(ZeroOf(VType(v)), <<VPayload(v)>>)
            ELSE Response(v, <<>>)
    IN  <<"application/json", status, Marshal(resp)>>

\* errResp := &ErrResponse{Message: errMsg}
NewErrResponse(errMsg) == GoVal("*ErrResponse", FALSE, errMsg)

\* EncodeErr(rw, status, errMsg)
EncodeErrResponse(status, errMsg) == Encode(status, NewErrResponse(errMsg))

\* Decode[Response[T]](rw): <<data, error field, err>>
Decode(type, body) ==
    IF body[1] = "none" THEN <<ZeroOf(type), <<>>, "decode json: EOF">>
    ELSE IF body[1] = "garbage"
    THEN <<ZeroOf(type), <<>>, "decode json: invalid character">>
    ELSE LET env == body[2] IN
         IF EData(env) # <<>> /\ VType(EData(env)[1]) # type
         THEN <<ZeroOf(type), <<>>, "decode json: cannot unmarshal">>
         ELSE <<IF EData(env) = <<>> THEN ZeroOf(type) ELSE EData(env)[1],
                EError(env), "">>

\* the bodies a reader may hold
RespBodies == {NoBody, Garbage} \cup {Encode(200, v)[3] : v \in RespValues}

\* a call: <<function, status, v, errMsg, T, body, Close fails>>
RespCalls ==
    {<<"Encode", s, v, "", VType(v), NoBody, FALSE>> :
        s \in RespStatuses, v \in RespValues}
    \cup {<<"EncodeErr", s, ZeroOf("string"), m, "string", NoBody, FALSE>> :
        s \in RespStatuses, m \in RespMsgs}
    \cup {<<"DecodeAndClose", 0, ZeroOf(t), "", t, b, f>> :
        t \in {"int", "string"}, b \in RespBodies, f \in BOOLEAN}

NoRespCall == <<"none", 0, ZeroOf("string"), "", "string", NoBody, FALSE>>
FreshWriter == <<"", 0, NoBody>>
NoRespRet == <<ZeroOf("string"), <<>>, "unset">>

notResp == <<chainVars, gzipVars, grpcVars, pipeVars, levelVars, valVars, recVars,
             rootVars, envVars, mapVars>>

RespIdle ==
    /\ rsIn = NoRespCall
    /\ rsPc = "idle"
    /\ rsRw = FreshWriter
    /\ rsRd = <<NoBody, FALSE, 0>>
    /\ rsRet = NoRespRet

\* a call on a fresh writer, or on a reader that was not closed yet
RespInit ==
    /\ rsIn \in RespCalls
    /\ rsPc = "start"
    /\ rsRw = FreshWriter
    /\ rsRd = <<rsIn[6], rsIn[7], 0>>
    /\ rsRet = NoRespRet

\* the value Encode is called with
RespValue == IF rsIn[1] = "EncodeErr" THEN NewErrResponse(rsIn[4]) ELSE rsIn[3]

\* EncodeErr: errResp := &ErrResponse{Message: errMsg}; Encode(rw, status, errResp)
RespEncodeErr ==
    /\ rsPc = "start"
    /\ rsIn[1] = "EncodeErr"
    /\ rsPc' = "encode"
    /\ UNCHANGED <<rsIn, rsRw, rsRd, rsRet, notResp>>

\* rw.Header().Set("Content-Type", "application/json")
RespSetHeader ==
    /\ \/ rsPc = "start" /\ rsIn[1] = "Encode"
       \/ rsPc = "encode"
    /\ rsPc' = "writeheader"
    /\ rsRw' = [rsRw EXCEPT ![1] = Encode(rsIn[2], RespValue)[1]]
    /\ UNCHANGED <<rsIn, rsRd, rsRet, notResp>>

\* rw.WriteHeader(status)
RespWriteHeader ==
    /\ rsPc = "writeheader"
    /\ rsPc' = "body"
    /\ rsRw' = [rsRw EXCEPT ![2] = Encode(rsIn[2], RespValue)[2]]
    /\ UNCHANGED <<rsIn, rsRd, rsRet, notResp>>

\* the type switch and json.NewEncoder(rw).Encode(resp)
RespEncodeBody ==
    /\ rsPc = "body"
    /\ rsPc' = "done"
    /\ rsRw' = [rsRw EXCEPT ![3] = Encode(rsIn[2], RespValue)[3]]
    /\ UNCHANGED <<rsIn, rsRd, rsRet, notResp>>

\* DecodeAndClose: data, err := Decode[T](rw); if err != nil { return data, err }
RespDecode ==
    /\ rsPc = "start"
    /\ rsIn[1] = "DecodeAndClose"
    /\ LET d == Decode(rsIn[5], rsRd[1]) IN
        /\ rsRet' = d
        /\ rsPc' = IF d[3] # "" THEN "done" ELSE "close"
    /\ UNCHANGED <<rsIn, rsRw, rsRd, notResp>>

\* if err := rw.Close(); err != nil { return data, fmt.Errorf(...) }; return data, nil
RespClose ==
    /\ rsPc = "close"
    /\ rsPc' = "done"
    /\ rsRd' = [rsRd EXCEPT ![3] = @ + 1]
    /\ rsRet' = [rsRet EXCEPT ![3] = IF rsRd[2] THEN "close reader: failed" ELSE ""]
    /\ UNCHANGED <<rsIn, rsRw, notResp>>

RespNext ==
    \/ RespEncodeErr
    \/ RespSetHeader
    \/ RespWriteHeader
    \/ RespEncodeBody
    \/ RespDecode
    \/ RespClose

(***************************************************************************)
(* cli/root.go: the flags of the root command, its Before and After hooks  *)
(***************************************************************************)
MaxFlags == 2   \* flag values applied in one run

RootFlags ==
    {"log.level", "log.format", "log.source", "metrics.enabled", "metrics.host",
     "metrics.port", "metrics.path", "tracing.enabled", "shutdown.grace",
     "aws.region"}

\* the field behind the Destination of each flag
FlagDestination(f) ==
    CASE f = "log.level" -> "LogLevel"
      [] f = "log.format" -> "LogFormat"
      [] f = "log.source" -> "LogSource"
      [] f = "metrics.enabled" -> "MetricsEnabled"
      [] f = "metrics.host" -> "MetricsHost"
      [] f = "metrics.port" -> "MetricsPort"
      [] f = "metrics.path" -> "MetricsPath"
      [] f = "tracing.enabled" -> "TraceEnabled"
      [] f = "shutdown.grace" -> "ShutdownGrace"
      [] OTHER -> "MetricsPath"

\* the values a flag is given, from the command line or the environment
FlagValues(f) ==
    CASE f = "log.level" -> {"debug", "bogus"}
      [] f = "log.format" -> {"json", "xml"}
      [] f \in {"log.source", "metrics.enabled", "tracing.enabled"} -> {TRUE}
      [] f = "metrics.host" -> {"0.0.0.0"}
      [] f = "metrics.port" -> {7070}
      [] f = "metrics.path" -> {"/m"}
      [] f = "shutdown.grace" -> {5}
      [] OTHER -> {"us-east-1"}

\* cfg := &RootCommandConfig{...}
DefaultRootConfig ==
    [LogLevel |-> "info", LogFormat |-> "text", LogSource |-> FALSE,
     MetricsEnabled |-> FALSE, MetricsHost |-> "localhost", MetricsPort |-> 6060,
     MetricsPath |-> "/metrics", TraceEnabled |-> FALSE, ShutdownGrace |-> 30,
     AWSRegion |-> "", metricsShutdown |-> "noop", tracesShutdown |-> "noop"]

\* a log.New that takes any format
LogNewAnyFormat(cfg) ==
    IF cfg.LogLevel \notin {"debug", "info", "warn", "error"}
    THEN "unknown log level" ELSE ""

\* log.New(cfg.Log): the error, "" for none
LogNew(cfg) ==
    IF cfg.LogLevel \notin {"debug", "info", "warn", "error"} THEN "unknown log level"
    ELSE IF cfg.LogFormat \notin {"text", "json"} THEN "unsupported log format"
    ELSE ""

\* tele.ServeMetrics(cfg.Metrics): <<shutdown function, error>>; fails says
\* whether initMeterProvider fails
ServeMetrics(cfg, fails) ==
    IF ~cfg.MetricsEnabled THEN <<"noop", "">>
    ELSE IF fails THEN <<"nil", "new meter provider">>
    ELSE <<"metricsShutdown", "">>

\* tele.InitTraceProvider(ctx, name, cfg.Trace); fails says whether the
\* resource or the exporter cannot be created
InitTraceProvider(cfg, fails) ==
    IF ~cfg.TraceEnabled THEN <<"noop", "">>
    ELSE IF fails THEN <<"nil", "failed to create trace exporter">>
    ELSE <<"tracesShutdown", "">>

NoRootHist ==
    [flag |-> "none", value |-> "", prev |-> DefaultRootConfig, failed |-> {},
     warns |-> <<>>, before |-> "unset", oldBefore |-> 0, shutdowns |-> <<>>,
     after |-> "unset", oldAfter |-> 0]

notRoot == <<chainVars, gzipVars, grpcVars, pipeVars, levelVars, valVars, recVars,
             respVars, envVars, mapVars>>

RootIdle ==
    /\ rtCfg = DefaultRootConfig
    /\ rtEnv = [oldBefore |-> FALSE, oldAfter |-> FALSE, applied |-> 0]
    /\ rtPc = "idle"
    /\ rtHist = NoRootHist

\* NewRootCommand(cmd): cmd may have a Before and an After hook already
RootInit ==
    /\ rtCfg = DefaultRootConfig
    /\ rtEnv \in [oldBefore : BOOLEAN, oldAfter : BOOLEAN, applied : {0}]
    /\ rtPc = "flags"
    /\ rtHist = NoRootHist

\* a flag is given the value v: *Destination = v
ApplyFlag(f, v) ==
    /\ rtPc = "flags"
    /\ rtEnv.applied < MaxFlags
    /\ rtEnv' = [rtEnv EXCEPT !.applied = @ + 1]
    /\ rtCfg' = [rtCfg EXCEPT ![FlagDestination(f)] = v]
    /\ rtHist' = [rtHist EXCEPT !.flag = f, !.value = v, !.prev = rtCfg]
    /\ UNCHANGED <<rtPc, notRoot>>

\* before: slogger, err := log.New(r.cfg.Log); if err != nil { return ... }
BeforeLog ==
    /\ rtPc = "flags"
    /\ IF LogNew(rtCfg) # ""
       THEN /\ rtPc' = "run"
            /\ rtHist' = [rtHist EXCEPT !.before = "create logger"]
       ELSE /\ rtPc' = "metrics"
            /\ UNCHANGED rtHist
    /\ UNCHANGED <<rtCfg, rtEnv, notRoot>>

\* before: r.cfg.metricsShutdown, err = tele.ServeMetrics(r.cfg.Metrics)
BeforeMetrics(fails) ==
    /\ rtPc = "metrics"
    /\ rtPc' = "traces"
    /\ LET res == ServeMetrics(rtCfg, fails) IN
        /\ rtCfg' = [rtCfg EXCEPT !.metricsShutdown = res[1]]
        /\ rtHist' = IF res[2] # ""
                     THEN [rtHist EXCEPT !.failed = @ \cup {"metrics"},
                                         !.warns = Append(@, "failed to start metrics server")]
                     ELSE rtHist
    /\ UNCHANGED <<rtEnv, notRoot>>

\* before: r.cfg.tracesShutdown, err = tele.InitTraceProvider(...); return nil
BeforeTraces(fails) ==
    /\ rtPc = "traces"
    /\ rtPc' = "oldBefore"
    /\ LET res == InitTraceProvider(rtCfg, fails) IN
        /\ rtCfg' = [rtCfg EXCEPT !.tracesShutdown = res[1]]
        /\ rtHist' = IF res[2] # ""
                     THEN [rtHist EXCEPT !.failed = @ \cup {"traces"},
                                         !.warns = Append(@, "failed to start exporting traces"),
                                         !.before = "nil"]
                     ELSE [rtHist EXCEPT !.before = "nil"]
    /\ UNCHANGED <<rtEnv, notRoot>>

\* cmd.Before: if oldBefore == nil { return ctx, nil }; return oldBefore(ctx, c)
OldBefore ==
    /\ rtPc = "oldBefore"
    /\ rtPc' = "run"
    /\ rtHist' = IF rtEnv.oldBefore THEN [rtHist EXCEPT !.oldBefore = @ + 1] ELSE rtHist
    /\ UNCHANGED <<rtCfg, rtEnv, notRoot>>

\* after: r.cfg.metricsShutdown(shutdownCtx); calling a nil function panics
AfterMetrics ==
    /\ rtPc \in {"flags", "run"}
    /\ IF rtCfg.metricsShutdown = "nil"
       THEN /\ rtPc' = "panicked"
            /\ rtHist' = [rtHist EXCEPT !.after = "panic"]
       ELSE /\ rtPc' = "tracesShutdown"
            /\ rtHist' = [rtHist EXCEPT !.shutdowns = Append(@, rtCfg.metricsShutdown)]
    /\ UNCHANGED <<rtCfg, rtEnv, notRoot>>

\* after: r.cfg.tracesShutdown(shutdownCtx), a warning when it fails; return nil
AfterTraces(fails) ==
    /\ rtPc = "tracesShutdown"
    /\ IF rtCfg.tracesShutdown = "nil"
       THEN /\ rtPc' = "panicked"
            /\ rtHist' = [rtHist EXCEPT !.after = "panic"]
       ELSE /\ rtPc' = "oldAfter"
            /\ rtHist' = [rtHist EXCEPT
                    !.shutdowns = Append(@, rtCfg.tracesShutdown),
                    !.warns = IF fails /\ rtCfg.tracesShutdown = "tracesShutdown"
                              THEN Append(@, "failed to shutdown traces exporter")
                              ELSE @,
                    !.after = "nil"]
    /\ UNCHANGED <<rtCfg, rtEnv, notRoot>>

\* cmd.After: if oldAfter == nil { return nil }; return oldAfter(ctx, c)
OldAfter ==
    /\ rtPc = "oldAfter"
    /\ rtPc' = "stopped"
    /\ rtHist' = IF rtEnv.oldAfter THEN [rtHist EXCEPT !.oldAfter = @ + 1] ELSE rtHist
    /\ UNCHANGED <<rtCfg, rtEnv, notRoot>>

RootNext ==
    \/ \E f \in RootFlags : \E v \in FlagValues(f) : ApplyFlag(f, v)
    \/ BeforeLog
    \/ \E fails \in BOOLEAN : BeforeMetrics(fails)
    \/ \E fails \in BOOLEAN : BeforeTraces(fails)
    \/ OldBefore
    \/ AfterMetrics
    \/ \E fails \in BOOLEAN : AfterTraces(fails)
    \/ OldAfter

(***************************************************************************)
(* cli/root.go: debugPrintEnvVars                                          *)
(***************************************************************************)
MaxEnv == 2   \* variables of the environment
MaxVal == 2   \* characters of a value

\* strings are sequences of characters
EnvNames ==
    {<<"P","A","T","H">>,
     <<"D","B","_","P","a","s","s","w","o","r","d">>,
     <<"P","A","S","S","W","O","R","D">>}
EnvChars == {"s", "="}

RECURSIVE StringsUpTo(_)
StringsUpTo(n) ==
    IF n = 0 THEN {<<>>}
    ELSE LET shorter == StringsUpTo(n - 1) IN
         shorter \cup {Append(s, c) : s \in {t \in shorter : Len(t) = n - 1}, c \in EnvChars}

EnvValues == StringsUpTo(MaxVal)

\* a variable is <<name, value>>
EnvVarsUpTo ==
    UNION {[1..n -> {<<name, value>> : name \in EnvNames, value \in EnvValues}] :
            n \in 0..MaxEnv}

\* os.Environ(): one "name=value" per variable
Environ(pairs) == [i \in 1..Len(pairs) |-> pairs[i][1] \o <<"=">> \o pairs[i][2]]

\* the index of the first sep in s, 0 if there is none
RECURSIVE Index(_, _, _)
Index(s, sep, i) ==
    IF i > Len(s) THEN 0
    ELSE IF s[i] = sep THEN i
    ELSE Index(s, sep, i + 1)

\* strings.Split(s, sep) for a separator of one character
RECURSIVE Split(_, _)
Split(s, sep) ==
    LET i == Index(s, sep, 1) IN
    IF i = 0 THEN <<s>>
    ELSE <<SubSeq(s, 1, i - 1)>> \o Split(SubSeq(s, i + 1, Len(s)), sep)

\* strings.Join(parts, sep)
RECURSIVE Join(_, _)
Join(parts, sep) ==
    IF Len(parts) = 0 THEN <<>>
    ELSE IF Len(parts) = 1 THEN parts[1]
    ELSE parts[1] \o sep \o Join(Tail(parts), sep)

Password == <<"p","a","s","s","w","o","r","d">>
Redacted == <<"*","*","*","*","*">>
EnvHeaderLine == <<"Environment variables:">>

\* the line debugPrintEnvVars logs for kv
EnvLine(kv) ==
    LET parts == Split(kv, "=") IN
    IF Len(parts) # 2 THEN kv
    ELSE IF ~Contains(ToLower(parts[1]), Password) THEN kv
    ELSE Join(<<parts[1], IF parts[2] = <<>> THEN <<>> ELSE Redacted>>, <<"=">>)

notEnv == <<chainVars, gzipVars, grpcVars, pipeVars, levelVars, valVars, recVars,
            respVars, rootVars, mapVars>>

EnvIdle == evEnviron = <<>> /\ evI = 0 /\ evLog = <<>>

\* debugPrintEnvVars is called in some environment
EnvInit ==
    /\ evEnviron \in EnvVarsUpTo
    /\ evI = 0
    /\ evLog = <<>>

\* slog.Debug("Environment variables:")
EnvHeader ==
    /\ evLog = <<>>
    /\ evLog' = <<EnvHeaderLine>>
    /\ UNCHANGED <<evEnviron, evI, notEnv>>

\* one round of for _, kv := range os.Environ()
EnvPrint ==
    /\ evLog # <<>>
    /\ evI < Len(evEnviron)
    /\ evI' = evI + 1
    /\ evLog' = Append(evLog, EnvLine(Environ(evEnviron)[evI + 1]))
    /\ UNCHANGED <<evEnviron, notEnv>>

EnvNext ==
    \/ EnvHeader
    \/ EnvPrint

(***************************************************************************)
(* db/mapping.go: NewMapping, Mapping.Get, Mapping.ForEach                 *)
(***************************************************************************)
MaxList == 2   \* length of the lists given to NewMapping

\* strings are sequences of characters
MapProjects == {<<"p">>, <<"P">>, <<"q">>}
MapNetworks == {<<"n">>, <<"N">>}
MapItems == {"i1", "i2"}

ListsOf(S) == UNION {[1..n -> S] : n \in 0..MaxList}

\* mapping[k] = v on a Go map
MapPut(m, k, v) == [x \in DOMAIN m \cup {k} |-> IF x = k THEN v ELSE m[x]]

\* make(map[...]...)
EmptyMap == <<>>

\* a loop that keeps the item a pair already has
RECURSIVE NewMappingLoopKeep(_, _, _, _, _)
NewMappingLoopKeep(projects, networks, items, i, mapping) ==
    IF i > Len(projects) THEN mapping
    ELSE LET project == ToLower(projects[i])
             network == ToLower(networks[i])
             inner == IF project \in DOMAIN mapping THEN mapping[project] ELSE EmptyMap
             item == IF network \in DOMAIN inner THEN inner[network] ELSE items[i]
         IN  NewMappingLoopKeep(projects, networks, items, i + 1,
                                MapPut(mapping, project, MapPut(inner, network, item)))

\* for i, project := range projects { ... mapping[project][network] = item }
RECURSIVE NewMappingLoop(_, _, _, _, _)
NewMappingLoop(projects, networks, items, i, mapping) ==
    IF i > Len(projects) THEN mapping
    ELSE LET project == ToLower(projects[i])
             network == ToLower(networks[i])
             inner == IF project \in DOMAIN mapping THEN mapping[project] ELSE EmptyMap
         IN  NewMappingLoop(projects, networks, items, i + 1,
                            MapPut(mapping, project, MapPut(inner, network, items[i])))

\* NewMapping(projects, networks, items): <<mapping, error>>
NewMapping(projects, networks, items) ==
    IF Len(projects) # Len(networks) \/ Len(networks) # Len(items)
    THEN <<EmptyMap, "must have the same length">>
    ELSE <<NewMappingLoop(projects, networks, items, 1, EmptyMap), "">>

\* d.Get(project, network): <<item, found>>
Get(d, project, network) ==
    IF project \notin DOMAIN d THEN <<"", FALSE>>
    ELSE IF network \notin DOMAIN d[project] THEN <<"", FALSE>>
    ELSE <<d[project][network], TRUE>>

\* the (project, network, item) triples of a mapping
Entries(d) == UNION {{<<p, n, d[p][n]>> : n \in DOMAIN d[p]} : p \in DOMAIN d}

NoGet == <<<<>>, <<>>, "", FALSE>>

notMap == <<chainVars, gzipVars, grpcVars, pipeVars, levelVars, valVars, recVars,
            respVars, rootVars, envVars>>

MapIdle ==
    /\ mpIn = <<<<>>, <<>>, <<>>>>
    /\ mpPc = "idle"
    /\ mpMap = EmptyMap
    /\ mpOut = <<"", NoGet, <<>>, FALSE>>

\* the three lists NewMapping is called with
MapInit ==
    /\ mpIn \in ListsOf(MapProjects) \X ListsOf(MapNetworks) \X ListsOf(MapItems)
    /\ mpPc = "start"
    /\ mpMap = EmptyMap
    /\ mpOut = <<"", NoGet, <<>>, FALSE>>

\* m, err := NewMapping(projects, networks, items)
MapNew ==
    /\ mpPc = "start"
    /\ LET res == NewMapping(mpIn[1], mpIn[2], mpIn[3]) IN
        /\ mpMap' = res[1]
        /\ mpOut' = [mpOut EXCEPT ![1] = res[2]]
        /\ mpPc' = IF res[2] # "" THEN "failed" ELSE "ready"
    /\ UNCHANGED <<mpIn, notMap>>

\* item, found := m.Get(project, network)
MapGet(project, network) ==
    /\ mpPc = "ready"
    /\ LET res == Get(mpMap, project, network) IN
        mpOut' = [mpOut EXCEPT ![2] = <<project, network, res[1], res[2]>>]
    /\ UNCHANGED <<mpIn, mpPc, mpMap, notMap>>

\* m.ForEach(fn) is called
MapForEach ==
    /\ mpPc = "ready"
    /\ mpPc' = "foreach"
    /\ mpOut' = [mpOut EXCEPT ![3] = <<>>, ![4] = FALSE]
    /\ UNCHANGED <<mpIn, mpMap, notMap>>

\* fn(project, network, item) for the next entry, in the order of the map
MapForEachCall(e) ==
    /\ mpPc = "foreach"
    /\ e \in Entries(mpMap)
    /\ \A i \in DOMAIN mpOut[3] : mpOut[3][i] # e
    /\ mpOut' = [mpOut EXCEPT ![3] = Append(@, e)]
    /\ UNCHANGED <<mpIn, mpPc, mpMap, notMap>>

\* ForEach returns when the ranges are exhausted
MapForEachReturn ==
    /\ mpPc = "foreach"
    /\ \A e \in Entries(mpMap) : \E i \in DOMAIN mpOut[3] : mpOut[3][i] = e
    /\ mpPc' = "ready"
    /\ mpOut' = [mpOut EXCEPT ![4] = TRUE]
    /\ UNCHANGED <<mpIn, mpMap, notMap>>

MapNext ==
    \/ MapNew
    \/ \E project \in MapProjects : \E network \in MapNetworks : MapGet(project, network)
    \/ MapForEach
    \/ \E e \in MapProjects \X MapNetworks \X MapItems : MapForEachCall(e)
    \/ MapForEachReturn

MoreIdle == ValIdle /\ RecIdle /\ RespIdle /\ RootIdle /\ EnvIdle /\ MapIdle
OldIdle == ChainIdle /\ GzipInit /\ GrpcIdle /\ PipeIdle /\ LevelIdle

(***************************************************************************)
(* Specifications                                                          *)
(***************************************************************************)
InitChain == ChainInit /\ GzipInit /\ GrpcIdle /\ PipeIdle /\ LevelIdle /\ MoreIdle
InitGZip == ChainIdle /\ GzipInit /\ GrpcIdle /\ PipeIdle /\ LevelIdle /\ MoreIdle
InitGrpc == ChainIdle /\ GzipInit /\ GrpcInit /\ PipeIdle /\ LevelIdle /\ MoreIdle
InitPipe == ChainIdle /\ GzipInit /\ GrpcIdle /\ PipeInit /\ LevelIdle /\ MoreIdle
InitAuth == ChainIdle /\ GzipInit /\ GrpcIdle /\ AuthInit /\ LevelIdle /\ MoreIdle
InitMetric == ChainIdle /\ GzipInit /\ GrpcIdle /\ MetricInit /\ LevelIdle /\ MoreIdle
InitLevel == ChainIdle /\ GzipInit /\ GrpcIdle /\ PipeIdle /\ LevelInit /\ MoreIdle

SpecChain == InitChain /\ [][ChainNext]_vars
SpecGZip == InitGZip /\ [][GzipNext]_vars
SpecGrpc == InitGrpc /\ [][GrpcNext]_vars
SpecPipe == InitPipe /\ [][PipeNext]_vars
SpecAuth == InitAuth /\ [][AuthNext]_vars
SpecMetric == InitMetric /\ [][MetricNext]_vars
SpecLevel == InitLevel /\ [][LevelNext]_vars

InitValidate ==
    OldIdle /\ ValInit /\ RecIdle /\ RespIdle /\ RootIdle /\ EnvIdle /\ MapIdle
SpecValidate == InitValidate /\ [][ValNext]_vars

InitRecover ==
    OldIdle /\ ValIdle /\ RecInit /\ RespIdle /\ RootIdle /\ EnvIdle /\ MapIdle
SpecRecover == InitRecover /\ [][RecNext]_vars

InitResp ==
    OldIdle /\ ValIdle /\ RecIdle /\ RespInit /\ RootIdle /\ EnvIdle /\ MapIdle
SpecResp == InitResp /\ [][RespNext]_vars

InitRoot ==
    OldIdle /\ ValIdle /\ RecIdle /\ RespIdle /\ RootInit /\ EnvIdle /\ MapIdle
SpecRoot == InitRoot /\ [][RootNext]_vars

InitEnv ==
    OldIdle /\ ValIdle /\ RecIdle /\ RespIdle /\ RootIdle /\ EnvInit /\ MapIdle
SpecEnv == InitEnv /\ [][EnvNext]_vars

InitMapping ==
    OldIdle /\ ValIdle /\ RecIdle /\ RespIdle /\ RootIdle /\ EnvIdle /\ MapInit
SpecMapping == InitMapping /\ [][MapNext]_vars


\* the steps the runtime takes on its own once they are enabled: the
\* goroutines of ListenAndServe, Shutdown and the BindCtx waiter run, and
\* open connections end
GrpcFairness ==
    /\ WF_vars(LasSetServing)
    /\ WF_vars(LasServe)
    /\ WF_vars(~srv.registered /\ LasAcceptErr)
    /\ WF_vars(LasServeDefer)
    /\ WF_vars(LasWaitDone)
    /\ WF_vars(LasReturn)
    /\ WF_vars(ConnFinish)
    /\ WF_vars(WaiterWake)
    /\ \A c \in Callers :
        /\ WF_vars(SdHealth(c))
        /\ WF_vars(SdQuit(c))
        /\ WF_vars(SdCloseListeners(c))
        /\ WF_vars(SdWaitServe(c))
        /\ WF_vars(SdFinish(c))

SpecGrpcFair == InitGrpc /\ [][GrpcNext]_vars /\ GrpcFairness

(***************************************************************************)
(* Claims                                                                  *)
(***************************************************************************)

\* C1: every use of a compressor by a request (Reset, Write, Close) happens
\* while that request holds it: after the request took it from the pool and
\* before the request put it back.
C1_UsedOnlyWhileHeld ==
    lastUse.op # "none" => lastUse.holder = lastUse.by

\* the trace the chain of mws around h must produce
ExpectedTrace(mws) ==
    LET n == Len(mws) IN
    [i \in 1..(2 * n + 1) |->
        IF i <= n THEN <<"enter", mws[i]>>
        ELSE IF i = n + 1 THEN <<"h", "h">>
        ELSE <<"exit", mws[2 * n + 2 - i]>>]

\* C2: MiddlewareChain(m1, ..., mn)(h) enters m1, ..., mn, then runs h, then
\* leaves mn, ..., m1; for the empty list it runs h alone.
C2_ChainOrder ==
    chPc = "done" => chTrace = ExpectedTrace(chMws)

C2_Witness ==
    /\ chPc = "done"
    /\ Len(chMws) = 3
    /\ chMws[1] # chMws[2]
    /\ chMws[2] # chMws[3]
    /\ Len(chTrace) = 7

\* shutdown has been triggered: Shutdown was called, or the context bound
\* with BindCtx was cancelled (by its parent or by the returned function)
ShutdownTriggered ==
    \/ sdPc["user"] # "idle"
    \/ sdPc["waiter"] # "idle"
    \/ (bindPc.bound /\ ctx.derived)

\* C3 as stated: once shutdown has been triggered, a ListenAndServe that got
\* its listener and whose listener did not fail on its own returns nil,
\* whatever the interleaving.
C3_ReturnsNilAfterShutdown ==
    (lasPc = "returned" /\ ShutdownTriggered /\ ghist.listened /\ ~ghist.extFail)
        => lasErr = "nil"

\* C3 amended: what ListenAndServe returns is decided by how far it got: the
\* listen error without a listener, ErrServerStopped when GracefulStop had
\* closed the listeners before Serve registered this one, the accept error
\* when the listener failed before shutdown began, and nil otherwise, and
\* then GracefulStop has completed.
C3_ServeResultSafety ==
    lasPc = "returned" =>
        /\ ~ghist.listened => lasErr = "listen"
        /\ (ghist.listened /\ ~ghist.registered) =>
                (lasErr = "ErrServerStopped" /\ ~srv.lis)
        /\ (ghist.registered /\ ghist.extFail) => lasErr = "accept"
        /\ (ghist.registered /\ ~ghist.extFail) =>
                (lasErr = "nil" /\ srv.quit /\ srv.done)

\* C3 amended, with the return itself: a ListenAndServe that was called
\* returns once GracefulStop has begun.
C3_ServeResult ==
    /\ []C3_ServeResultSafety
    /\ ((lasPc # "idle" /\ srv.quit) ~> (lasPc = "returned"))

C3_Witness ==
    /\ lasPc = "returned"
    /\ lasErr = "nil"
    /\ bindPc.fn = "returned"
    /\ sdPc["user"] = "idle"

\* C4: the waiter of BindCtx calls Shutdown once, and only when the bound
\* context is cancelled; when the returned function has returned, that
\* Shutdown call has completed and the waiter has exited.
C4_BindCtx ==
    /\ ghist.waiterShutdowns <= 1
    /\ sdPc["waiter"] # "idle" => (ctx.derived /\ ghist.waiterShutdowns = 1)
    /\ bindPc.waiter \in {"shutdown", "exited"} <=> sdPc["waiter"] # "idle"
    /\ bindPc.fn = "returned" =>
        /\ bindPc.waiter = "exited"
        /\ sdPc["waiter"] = "returned"
        /\ ghist.waiterShutdowns = 1
        /\ srv.done

C4_Witness ==
    /\ bindPc.fn = "returned"
    /\ ~ctx.parent
    /\ sdPc["user"] = "idle"
    /\ lasPc = "returned"

\* C5 as stated: from the moment Shutdown is invoked or ListenAndServe has
\* returned, the health status of "" is NOT_SERVING.
C5_NotServingAfterReturn ==
    (health.shutdown \/ lasPc = "returned") => health.status = "NOT_SERVING"

\* C5 amended: ListenAndServe sets SERVING before it serves and NOT_SERVING
\* when it returns from Serve, SetServingStatus sets what it is given, all
\* three unless Shutdown ran before; from health.Shutdown on the status is
\* NOT_SERVING for good.
C5_HealthLifecycle ==
    /\ [](health.shutdown => health.status = "NOT_SERVING")
    /\ [](\A c \in Callers : sdPc[c] \notin {"idle", "called"} => health.shutdown)
    /\ [][health.shutdown => health'.shutdown]_vars
    /\ [][(lasPc = "listened" /\ lasPc' = "serve" /\ ~health.shutdown)
            => health'.status = "SERVING"]_vars
    /\ [][(ghist'.setTick # ghist.setTick /\ ~health.shutdown)
            => health'.status = ghist'.lastSet]_vars
    /\ [][(lasPc = "deferStatus" /\ lasPc' = "returned")
            => health'.status = "NOT_SERVING"]_vars

C5_Witness ==
    /\ lasPc = "returned"
    /\ lasErr = "nil"
    /\ ghist.lastCheck = "SERVING"
    /\ ghist.lastSet = "NOT_SERVING"
    /\ health.shutdown
    /\ health.status = "NOT_SERVING"

\* C6: when MiddlewareGZip returns from a compressed request, the response
\* has Content-Encoding: gzip and Vary: Accept-Encoding and its body is a
\* complete gzip stream of exactly what the handler wrote.
C6_GzipRoundTrip ==
    \A r \in Requests :
        (pc[r] = "done" /\ hist[r].took) =>
            /\ rw[r].hdr.ce = "gzip"
            /\ \E i \in 1..Len(rw[r].hdr.vary) : rw[r].hdr.vary[i] = "Accept-Encoding"
            /\ Decompress(rw[r].body) = [ok |-> TRUE, data |-> hist[r].body]

\* C7: without gzip in Accept-Encoding, or with "upgrade" in Connection in
\* any letter case, the handler runs once on the original writer, no
\* compressor is taken, no header is set and the body is what it wrote.
C7_Bypass ==
    \A r \in Requests :
        (/\ pc[r] # "new"
         /\ \/ ~Contains(req[r].ae, sGzip)
            \/ Contains(ToLower(req[r].conn), sUpgrade)) =>
            /\ pc[r] \in {"bypass", "done"}
            /\ hist[r].sawOriginal
            /\ hist[r].nextCalls = 1
            /\ ~hist[r].took
            /\ gzw[r] = 0
            /\ rw[r].status = 0
            /\ rw[r].hdr = NoHeader
            /\ rw[r].body = Raw(hist[r].body)

C7_Witness ==
    /\ pc["r1"] = "done"
    /\ Contains(req["r1"].ae, sGzip)
    /\ req["r1"].conn = <<"U","p","g","r","a","d","e">>
    /\ Len(hist["r1"].body) = 2
    /\ pc["r2"] = "done"
    /\ hist["r2"].took

\* C8: when the handler wrote no byte, nothing of a gzip stream reaches the
\* underlying response writer.
C8_NoEmptyStream ==
    \A r \in Requests :
        (pc[r] = "done" /\ hist[r].took /\ hist[r].body = <<>>) =>
            rw[r].body = <<>>

\* C9: after the handler, Content-Length is set if and only if the handler
\* wrote at least one byte, and then to the number of bytes written.
C9_ContentLengthIffWritten ==
    \A r \in Requests :
        (pc[r] \in {"defer2", "defer1", "done"} /\ hist[r].nextCalls = 1
            /\ ~hist[r].sawOriginal) =>
            /\ rw[r].hdr.cl # <<>> <=> wrapped[r].written >= 1
            /\ rw[r].hdr.cl # <<>> => rw[r].hdr.cl = Itoa(Len(hist[r].body))

\* C10: a request that took a compressor puts it back exactly once before
\* MiddlewareGZip ends, whether the handler returns or panics; a request
\* that took none puts none.
C10_PutExactlyOnce ==
    \A r \in Requests :
        /\ hist[r].puts <= 1
        /\ hist[r].puts = 1 => hist[r].took
        /\ (pc[r] \in {"defer1", "done"} /\ hist[r].took) => hist[r].puts = 1
        /\ (pc[r] \in {"got", "serve", "defer3", "defer2"}) =>
                (hist[r].puts = 0 /\ holder[gzw[r]] = r)

C10_Witness ==
    /\ pc["r1"] = "done"
    /\ hist["r1"].panicked
    /\ hist["r1"].puts = 1
    /\ pc["r2"] = "done"
    /\ ~hist["r2"].panicked
    /\ hist["r2"].puts = 1
    /\ gzw["r1"] = gzw["r2"]

\* the elements of a sequence
Range(s) == {s[i] : i \in DOMAIN s}

\* the response of r has the status and a body holding the word
Answered(r, status, word) ==
    /\ punder[r].status = status
    /\ \E i \in DOMAIN punder[r].log :
        /\ COp(punder[r].log[i]) = "Write"
        /\ word \in Range(CMsg(punder[r].log[i]))

\* the two rejections of MiddlewareAuthentication
AuthRejections(r) ==
    /\ pin[r].key = "" =>
        /\ Answered(r, 401, ApiKeyHeader)
        /\ pout[r].nextCalls = 0
    /\ (pin[r].key # "" /\ pin[r].key \notin DOMAIN lookup) =>
        /\ Answered(r, 401, pin[r].key)
        /\ pout[r].nextCalls = 0

\* C11 as stated: MiddlewareAuthentication invokes next if and only if the
\* request carries an X-API-Key (an empty value counts as none) that is a
\* key of the lookup table; a request without X-API-Key is answered 401 with
\* a message naming the header, a request with an unknown key 401 with a
\* message naming the key, and neither reaches next.
C11_NextIffKeyInTable ==
    \A r \in PReqs :
        ("auth" \in pout[r].seen /\ ppc[r] = "done") =>
            /\ pout[r].nextCalls >= 1 <=> pin[r].key \in DOMAIN lookup \ {""}
            /\ AuthRejections(r)

\* C11: MiddlewareAuthentication invokes next, once, if and only if the
\* X-API-Key of the request is not empty, is a key of the lookup table and
\* the writer can be wrapped (it is a *ResponseWriter or has Flush); a
\* recognised key on a writer that cannot be wrapped is answered 500; the
\* two rejections are answered 401, naming the header and the key, and
\* never reach next.
C11_NextIffKeyInTableAndWrappable ==
    \A r \in PReqs :
        "auth" \in pout[r].seen =>
            LET accepted == /\ pin[r].key # ""
                            /\ pin[r].key \in DOMAIN lookup
                            /\ punder[r].kind = "flusher"
            IN  /\ pout[r].nextCalls >= 1 => accepted
                /\ pout[r].nextCalls <= 1
                /\ ppc[r] = "done" => (pout[r].nextCalls = 1 <=> accepted)
                /\ AuthRejections(r)
                /\ (pin[r].key \in DOMAIN lookup \ {""} /\ punder[r].kind = "plain") =>
                        punder[r].status = 500

\* a request with a key of the table, on a writer with Flush, was served by
\* next and has returned
C11_Witness ==
    \E r \in PReqs :
        /\ ppc[r] = "done"
        /\ "auth" \in pout[r].seen
        /\ pin[r].key = "k1"
        /\ pin[r].key \in DOMAIN lookup
        /\ punder[r].kind = "flusher"
        /\ pout[r].nextCalls = 1

\* the last index of key in ks
LastIndex(ks, key) ==
    CHOOSE j \in 1..Len(ks) : ks[j] = key /\ \A i \in (j + 1)..Len(ks) : ks[i] # key

\* the lookup table is the one built from keys and users
TableAsBuilt ==
    /\ DOMAIN lookup = Range(keys)
    /\ \A k \in Range(keys) : lookup[k] = users[LastIndex(keys, k)]

\* C12 as stated: a request that carries an X-API-Key equal to some keys[i]
\* reaches next with a wrapped writer whose user is users[j], j the last
\* index with keys[j] equal to the key.
C12_ReachesNextAsLastUser ==
    \A r \in PReqs :
        ("auth" \in pout[r].seen /\ ppc[r] = "done" /\ pin[r].key \in Range(keys) \ {""}) =>
            /\ pout[r].nextCalls = 1
            /\ pcur[r] # 0
            /\ pwr[r][pcur[r]].user = users[LastIndex(keys, pin[r].key)]

\* C12: a request whose X-API-Key is not empty and equals some keys[i], on a
\* writer that can be wrapped, reaches next with a wrapped writer whose user
\* is users[j], j the last index with keys[j] equal to the key; the table is
\* built at construction and never modified by a request.
C12_LastEntryWins ==
    /\ [](\A r \in PReqs :
            ("auth" \in pout[r].seen /\ pin[r].key # "" /\ pin[r].key \in Range(keys)
                /\ punder[r].kind = "flusher") =>
                /\ pcur[r] # 0
                /\ pwr[r][pcur[r]].user = users[LastIndex(keys, pin[r].key)]
                /\ ppc[r] = "done" => pout[r].nextCalls = 1)
    /\ []TableAsBuilt
    /\ [][lookup' = lookup]_vars

\* a key given twice with different users, and a request with it served
C12_Witness ==
    \E r \in PReqs :
        /\ Len(keys) = 2
        /\ keys[1] = keys[2]
        /\ users[1] # users[2]
        /\ pin[r].key = keys[1]
        /\ ppc[r] = "done"
        /\ pout[r].nextCalls = 1
        /\ pwr[r][pcur[r]].user = users[2]

\* the calls of the operation op that the wrapper w of r has forwarded
Received(r, w, op) ==
    SelectSeq(SubSeq(punder[r].log, w.since + 1, Len(punder[r].log)),
              LAMBDA c : COp(c) = op)

\* what the handler of r called on its writer
HandlerCalls(r) == SelectSeq(pops[r], LAMBDA c : COp(c) # "Wrap")

\* C13: after any sequence of WriteHeader calls on a *ResponseWriter its
\* recorded status is the status of the first call, and every WriteHeader,
\* Header, Write and Flush is forwarded to the underlying writer.
C13_FirstStatusRecorded ==
    \A r \in PReqs :
        /\ \A k \in DOMAIN pwr[r] :
            Received(r, pwr[r][k], "WriteHeader") # <<>> =>
                pwr[r][k].status = CArg(Received(r, pwr[r][k], "WriteHeader")[1])
        /\ pout[r].nextCalls = 1 =>
            HandlerCalls(r) = SubSeq(punder[r].log, pout[r].atCall + 1, Len(punder[r].log))

RECURSIVE SumN(_)
SumN(cs) == IF cs = <<>> THEN 0 ELSE CRet(Head(cs)) + SumN(Tail(cs))

\* C14: the recorded status of a *ResponseWriter is 200 as long as
\* WriteHeader has not been called on it, its byte count is the sum of the
\* counts the underlying writer returned from Write, and the byte count
\* never decreases.
C14_DefaultStatusAndByteCount ==
    /\ [](\A r \in PReqs : \A k \in DOMAIN pwr[r] :
            /\ Received(r, pwr[r][k], "WriteHeader") = <<>> => pwr[r][k].status = 200
            /\ pwr[r][k].written = SumN(Received(r, pwr[r][k], "Write")))
    /\ [][\A r \in PReqs : \A k \in DOMAIN pwr[r] :
            pwr'[r][k].written >= pwr[r][k].written]_vars

\* two writes went through a wrapper that never saw WriteHeader, and the
\* underlying writer took less than it was given
C14_Witness ==
    \E r \in PReqs : \E k \in DOMAIN pwr[r] :
        /\ Received(r, pwr[r][k], "WriteHeader") = <<>>
        /\ Len(Received(r, pwr[r][k], "Write")) = 2
        /\ \E i \in 1..2 : CArg(Received(r, pwr[r][k], "Write")[i])
                                > CRet(Received(r, pwr[r][k], "Write")[i])
        /\ pwr[r][k].written = 2
        /\ pwr[r][k].status = 200

\* r has just called WrapResponseWriter from its handler
JustWrapped(r) ==
    /\ Len(pops'[r]) = Len(pops[r]) + 1
    /\ COp(pops'[r][Len(pops'[r])]) = "Wrap"

\* r has just entered the middleware, which wraps the writer it is given
JustEntered(r, layer) == layer \in pout'[r].seen \ pout[r].seen

\* C15: WrapResponseWriter on a *ResponseWriter returns the same instance
\* with status, byte count and user unchanged; on a writer without Flush it
\* fails and creates no wrapper, and MiddlewareLogging, MiddlewareMetric and
\* MiddlewareAuthentication then answer 500 and do not invoke next.
C15_WrapIdempotentOrRefused ==
    /\ [][\A r \in PReqs :
            /\ (pcur[r] # 0 /\ JustWrapped(r)) => (pcur'[r] = pcur[r] /\ pwr'[r] = pwr[r])
            /\ (pcur[r] # 0 /\ JustEntered(r, "logging")) =>
                (pcur'[r] = pcur[r] /\ pwr'[r] = pwr[r])
            /\ (pcur[r] # 0 /\ JustEntered(r, "metric")) =>
                (pcur'[r] = pcur[r] /\ pwr'[r] = pwr[r])
            /\ (pcur[r] # 0 /\ JustEntered(r, "auth") /\ pin[r].key \in DOMAIN lookup \ {""}) =>
                /\ pcur'[r] = pcur[r]
                /\ pwr'[r] = [pwr[r] EXCEPT ![pcur[r]].user = lookup[pin[r].key]]
         ]_vars
    /\ [](\A r \in PReqs :
            /\ Len(pwr[r]) <= 1
            /\ punder[r].kind = "plain" =>
                /\ pwr[r] = <<>>
                /\ pcur[r] = 0
                /\ (\/ "logging" \in pout[r].seen
                    \/ "metric" \in pout[r].seen
                    \/ "auth" \in pout[r].seen /\ pin[r].key \in DOMAIN lookup \ {""}) =>
                        /\ punder[r].status = 500
                        /\ pout[r].nextCalls = 0)

\* a handler called WrapResponseWriter on a *ResponseWriter that had
\* recorded a status and a user
C15_Witness ==
    \E r \in PReqs :
        /\ pops[r] # <<>>
        /\ COp(pops[r][Len(pops[r])]) = "Wrap"
        /\ pcur[r] # 0
        /\ pwr[r][pcur[r]].status = 404
        /\ pwr[r][pcur[r]].user = "u2"

\* the requests inside MiddlewareMetric
InFlight == {r \in PReqs : \E i \in DOMAIN pstack[r] : pstack[r][i].layer = "metric"}

\* C16: the in_flight gauge equals, at every moment, the number of requests
\* that have entered MiddlewareMetric and not left it, and is back at its
\* initial value when all have completed, panics included.
C16_GaugeIsInFlight == gauge = Cardinality(InFlight)

Finished(r) == ppc[r] \in {"done", "crashed"}

\* C17: every request handled by MiddlewareMetric adds exactly 1 to the
\* requests counter, tagged with the recorded status rounded down to a
\* multiple of 100 (200 when no status was set). Stated for the requests
\* whose writer has Flush, once they have left the chain.
C17_CountedOnce ==
    \A r \in PReqs :
        ("metric" \in pout[r].seen /\ Finished(r) /\ punder[r].kind = "flusher") =>
            /\ Len(pout[r].counts) = 1
            /\ pout[r].counts[1].add = 1
            /\ pout[r].counts[1].status = (pwr[r][1].status \div 100) * 100

\* C18: MiddlewareLogging emits exactly one entry for every request that
\* enters it, after the handler has finished, with the method, the path and
\* the recorded status, byte count and user; a request rejected by an inner
\* MiddlewareAuthentication is logged with 401 and an empty user, an
\* accepted one with the user of its key. Stated for the requests whose
\* writer has Flush, once they have left the chain.
C18_OneEntryPerRequest ==
    \A r \in PReqs :
        ("logging" \in pout[r].seen /\ Finished(r) /\ punder[r].kind = "flusher") =>
            /\ Len(pout[r].logs) = 1
            /\ pout[r].logs[1].method = pin[r].method
            /\ pout[r].logs[1].path = pin[r].path
            /\ pout[r].logs[1].status = pwr[r][1].status
            /\ pout[r].logs[1].size = pwr[r][1].written
            /\ pout[r].logs[1].user = pwr[r][1].user
            /\ ("auth" \in pout[r].seen /\ pin[r].key \notin DOMAIN lookup \ {""}) =>
                (pout[r].logs[1].status = 401 /\ pout[r].logs[1].user = "")
            /\ ("auth" \in pout[r].seen /\ pin[r].key \in DOMAIN lookup \ {""}) =>
                pout[r].logs[1].user = lookup[pin[r].key]

\* C19: the level of the entry is a function of the recorded status: info
\* for 200..399, warn for 400..499, error from 500 on.
C19_Severity ==
    lvLevel \notin {"idle", "none"} =>
        /\ (200 <= lvStatus /\ lvStatus <= 399) => lvLevel = "info"
        /\ (400 <= lvStatus /\ lvStatus <= 499) => lvLevel = "warn"
        /\ 500 <= lvStatus => lvLevel = "error"

\* the level was chosen for the status 500
C19_Witness == lvStatus = 500 /\ lvLevel = "error"

\* C20: a panic of the handler wrapped by MiddlewareRecover does not reach
\* the caller of the middleware, the handler is not invoked again, and the
\* request is answered with a generic failure response.
C20_PanicBecomesFailureResponse ==
    \A r \in PReqs :
        "recover" \in pout[r].seen =>
            /\ ppc[r] # "crashed"
            /\ pout[r].nextCalls <= 1
            /\ (ppc[r] = "done" /\ pout[r].recovered) => punder[r].status >= 500

\* C21: Validate returns no error exactly when (a Listener, no Host, Port 0)
\* or (no Listener, a Host, Port >= 0); it returns an error for a nil
\* config, a Listener with a Host, a Listener with a Port, neither Listener
\* nor Host, and a negative Port; NewServer returns an error and no server
\* exactly when Validate returns an error.
C21_ValidateAndNewServer ==
    LET accepted == /\ ~vCfg.isNil
                    /\ \/ vCfg.Listener /\ vCfg.Host = "" /\ vCfg.Port = 0
                       \/ ~vCfg.Listener /\ vCfg.Host # "" /\ vCfg.Port >= 0
    IN  /\ vErr \notin {"idle", "unset"} =>
            /\ vErr = "" <=> accepted
            /\ vCfg.isNil => vErr # ""
            /\ (~vCfg.isNil /\ vCfg.Listener /\ vCfg.Host # "") => vErr # ""
            /\ (~vCfg.isNil /\ vCfg.Listener /\ vCfg.Port # 0) => vErr # ""
            /\ (~vCfg.isNil /\ ~vCfg.Listener /\ vCfg.Host = "") => vErr # ""
            /\ (~vCfg.isNil /\ vCfg.Port < 0) => vErr # ""
        /\ vSrv # NoServer =>
            /\ vSrv.err # "" <=> ~accepted
            /\ vSrv.server <=> vSrv.err = ""
            /\ vErr \notin {"idle", "unset"} => (vErr = "" <=> vSrv.err = "")

\* a host with the port 0 was validated and got its server
C21_Witness ==
    /\ ~vCfg.isNil /\ ~vCfg.Listener /\ vCfg.Host = "localhost" /\ vCfg.Port = 0
    /\ vErr = ""
    /\ vSrv.server

\* the calls whose recovery handler is at one of the places
RecAt(places) == Cardinality({c \in RCalls : rcPc[c] \in places})

\* C22: every panic of a handler is turned into an error with the code
\* Internal and adds exactly 1 to the counter of recovered panics, logged or
\* not; the log lines are at least one second apart, so they never exceed
\* the panics nor one per elapsed second plus the first.
C22_PanicsCountedLogsLimited ==
    /\ rcHist.counter = rcHist.panics - RecAt({"add"})
    /\ Len(rcHist.codes) = rcHist.panics - RecAt({"add", "allow", "return"})
    /\ \A i \in DOMAIN rcHist.codes : rcHist.codes[i] = "Internal"
    /\ Len(rcHist.logs) <= rcHist.panics
    /\ Len(rcHist.logs) <= 1 + (rcNow \div TicksPerSecond)
    /\ \A i \in DOMAIN rcHist.logs : \A j \in DOMAIN rcHist.logs :
        i < j => rcHist.logs[j] - rcHist.logs[i] >= TicksPerSecond

\* three panics were recovered and counted within less than a second after
\* the first log line, two of them without a log line, and a later one was
\* logged again
C22_Witness ==
    /\ rcHist.panics = 4
    /\ rcHist.counter = 4
    /\ Len(rcHist.codes) = 4
    /\ Len(rcHist.logs) = 2

\* Encode or EncodeErr has returned
Encoded == rsPc = "done" /\ rsIn[1] \in {"Encode", "EncodeErr"}

\* the value is an *ErrResponse or an error value, and not nil
IsErrorValue(v) == VType(v) \in {"*ErrResponse", "error", "structError"} /\ ~VNil(v)

\* C23 as stated: Encode writes the status and an envelope with exactly one
\* field: error.message for an *ErrResponse or error value, with no data,
\* and data = the value, with no error, for every other value.  Stated for
\* the values that are not nil and that encoding/json can marshal; the zero
\* struct as data counts as empty data.
C23_ExactlyOneFieldPopulated ==
    Encoded /\ ~VNil(RespValue) /\ VType(RespValue) # "chan" =>
        /\ rsRw[2] = rsIn[2]
        /\ rsRw[3][1] = "json"
        /\ IF IsErrorValue(RespValue)
           THEN /\ EError(rsRw[3][2]) = <<VPayload(RespValue)>>
                /\ EData(rsRw[3][2]) \in {<<>>, <<ZeroOf(VType(RespValue))>>}
           ELSE /\ EData(rsRw[3][2]) = <<RespValue>>
                /\ EError(rsRw[3][2]) = <<>>

\* C23: Encode sets the content type and writes the given status; for an
\* *ErrResponse or error value that is not nil the error field carries its
\* message and data is left out (or is the zero struct, for an error of a
\* struct type); for every other value error is left out and data carries
\* the value unless the value is empty (nil, 0, ""), in which case the
\* envelope has no field at all; a value that cannot be marshalled leaves
\* the body unwritten.  EncodeErr gives error.message = msg and no data.
C23_EnvelopeOmitsEmpty ==
    Encoded =>
        /\ rsRw[1] = "application/json"
        /\ rsRw[2] = rsIn[2]
        /\ IF IsErrorValue(RespValue)
           THEN /\ rsRw[3][1] = "json"
                /\ EError(rsRw[3][2]) = <<VPayload(RespValue)>>
                /\ EData(rsRw[3][2]) =
                     IF VType(RespValue) = "structError"
                     THEN <<ZeroOf("structError")>> ELSE <<>>
           ELSE IF VType(RespValue) = "chan"
           THEN rsRw[3] = NoBody
           ELSE /\ rsRw[3][1] = "json"
                /\ EError(rsRw[3][2]) = <<>>
                /\ EData(rsRw[3][2]) =
                     IF RespValue = ZeroOf(VType(RespValue))
                     THEN <<>> ELSE <<RespValue>>
        /\ rsIn[1] = "EncodeErr" =>
             rsRw[3] = JsonBody(Envelope(<<>>, <<rsIn[4]>>))

\* Encode(rw, 404, 0) has written 404 and an envelope without any field
C23_Witness ==
    /\ Encoded
    /\ rsIn[1] = "Encode"
    /\ rsIn[3] = GoVal("int", FALSE, "0")
    /\ rsRw = <<"application/json", 404, JsonBody(EmptyEnvelope)>>

\* DecodeAndClose has returned
Decoded == rsPc = "done" /\ rsIn[1] = "DecodeAndClose"

\* C30: DecodeAndClose has closed its reader exactly once when it returns,
\* whether decoding succeeded or failed, and it returns the decode error
\* when there is one.
C30_ClosedOnEveryPath ==
    Decoded =>
        /\ rsRd[3] = 1
        /\ Decode(rsIn[5], rsRd[1])[3] # "" => rsRet[3] = Decode(rsIn[5], rsRd[1])[3]

FlagOwnField(f) ==
    CASE f = "log.level" -> "LogLevel"
      [] f = "log.format" -> "LogFormat"
      [] f = "log.source" -> "LogSource"
      [] f = "metrics.enabled" -> "MetricsEnabled"
      [] f = "metrics.host" -> "MetricsHost"
      [] f = "metrics.port" -> "MetricsPort"
      [] f = "metrics.path" -> "MetricsPath"
      [] f = "tracing.enabled" -> "TraceEnabled"
      [] f = "shutdown.grace" -> "ShutdownGrace"
      [] OTHER -> "AWSRegion"

\* C27: applying a value to a flag sets the config field the flag is named
\* after and no other: aws.region sets AWSRegion and leaves MetricsPath
\* unchanged, and MetricsPath changes only through metrics.path.
C27_EachFlagItsOwnField ==
    rtPc = "flags" /\ rtHist.flag # "none" =>
        /\ rtCfg[FlagOwnField(rtHist.flag)] = rtHist.value
        /\ \A field \in DOMAIN rtCfg \ {FlagOwnField(rtHist.flag)} :
             rtCfg[field] = rtHist.prev[field]

\* C28: whatever before did, after calls a metrics shutdown function and a
\* trace shutdown function that are not nil, does not panic, returns nil,
\* and the After hook registered earlier is then run.
C28_AfterShutsDownCleanly ==
    /\ rtCfg.metricsShutdown # "nil"
    /\ rtCfg.tracesShutdown # "nil"
    /\ rtPc # "panicked"
    /\ rtPc = "stopped" =>
         /\ Len(rtHist.shutdowns) = 2
         /\ rtHist.after = "nil"
         /\ rtHist.oldAfter = IF rtEnv.oldAfter THEN 1 ELSE 0

\* C25: for every variable whose name contains "password" in any letter
\* case, the logged line is the name, "=" and the redaction marker, or the
\* name and "=" when the value is empty; the value itself is never logged.
C25_PasswordsRedacted ==
    \A i \in 1..evI :
        Contains(ToLower(evEnviron[i][1]), Password) =>
            evLog[i + 1] = evEnviron[i][1] \o <<"=">> \o
                             (IF evEnviron[i][2] = <<>> THEN <<>> ELSE Redacted)

\* the pair at index i as it was given, and in lower case
MapPair(i) == <<mpIn[1][i], mpIn[2][i]>>
MapLowerPair(i) == <<ToLower(mpIn[1][i]), ToLower(mpIn[2][i])>>
SameLengths == Len(mpIn[1]) = Len(mpIn[2]) /\ Len(mpIn[2]) = Len(mpIn[3])
MaxOf(S) == CHOOSE x \in S : \A y \in S : y <= x

\* what NewMapping, Get and ForEach do apart from the entries of the mapping:
\* the error for lists of unequal length, found=false for what is not
\* stored, one callback per stored entry
MappingFrame ==
    /\ mpPc = "failed" <=> (mpPc # "start" /\ ~SameLengths)
    /\ mpPc = "failed" => mpMap = EmptyMap /\ mpOut[1] # ""
    /\ mpPc \in {"ready", "foreach"} => mpOut[1] = ""
    /\ mpPc \in {"ready", "foreach"} /\ Len(mpIn[1]) = 0 => mpMap = EmptyMap
    /\ mpOut[2] # NoGet =>
         ((\/ mpOut[2][1] \notin DOMAIN mpMap
           \/ mpOut[2][2] \notin DOMAIN mpMap[mpOut[2][1]]) => ~mpOut[2][4])
    /\ mpOut[4] =>
         /\ Len(mpOut[3]) = Cardinality(Entries(mpMap))
         /\ {mpOut[3][i] : i \in DOMAIN mpOut[3]} = Entries(mpMap)

\* C26 as stated: an error and no mapping exactly for lists of unequal
\* length; otherwise one entry per distinct (project, network) pair, the
\* item of the last index of a pair winning; Get finds nothing for an
\* unknown project or network; ForEach calls back once per entry.
C26_OneEntryPerPair ==
    /\ MappingFrame
    /\ mpPc \in {"ready", "foreach"} =>
         /\ Cardinality(Entries(mpMap)) =
              Cardinality({MapPair(i) : i \in DOMAIN mpIn[1]})
         /\ \A i \in DOMAIN mpIn[1] :
              Get(mpMap, MapLowerPair(i)[1], MapLowerPair(i)[2]) =
                <<mpIn[3][MaxOf({j \in DOMAIN mpIn[1] : MapPair(j) = MapPair(i)})], TRUE>>

\* C26: an error and no mapping exactly for lists of unequal length;
\* otherwise one entry per distinct lower-cased (project, network) pair,
\* stored under the lower-cased strings, the item of the last index with
\* the same lower-cased pair winning; Get finds nothing for a project or
\* network that is not stored; ForEach calls back once per entry.
C26_OneEntryPerLowerCasedPair ==
    /\ MappingFrame
    /\ mpPc \in {"ready", "foreach"} =>
         /\ Cardinality(Entries(mpMap)) =
              Cardinality({MapLowerPair(i) : i \in DOMAIN mpIn[1]})
         /\ \A i \in DOMAIN mpIn[1] :
              Get(mpMap, MapLowerPair(i)[1], MapLowerPair(i)[2]) =
                <<mpIn[3][MaxOf({j \in DOMAIN mpIn[1] : MapLowerPair(j) = MapLowerPair(i)})],
                  TRUE>>

\* two pairs that differ in letter case only, with different items, gave
\* one entry with the second item, and ForEach has called back once
C26_Witness ==
    /\ mpPc = "ready"
    /\ Len(mpIn[1]) = 2
    /\ MapPair(1) # MapPair(2)
    /\ MapLowerPair(1) = MapLowerPair(2)
    /\ mpIn[3][1] # mpIn[3][2]
    /\ Entries(mpMap) = {<<MapLowerPair(2)[1], MapLowerPair(2)[2], mpIn[3][2]>>}
    /\ mpOut[4]
    /\ Len(mpOut[3]) = 1

\* C29: after a successful NewMapping, Get(projects[i], networks[i]) finds
\* the item of the last index with the same pair, in any letter case of the
\* strings given to NewMapping.
C29_GetFindsWhatWasGiven ==
    mpOut[2] # NoGet =>
        \A i \in DOMAIN mpIn[1] :
            MapPair(i) = <<mpOut[2][1], mpOut[2][2]>> =>
                /\ mpOut[2][4]
                /\ mpOut[2][3] =
                     mpIn[3][MaxOf({j \in DOMAIN mpIn[1] : MapLowerPair(j) = MapLowerPair(i)})]

====
